---------------------------- MODULE Spec2Model ----------------------------
(***************************************************************************)
(* A model of doccheck: the README claims extractor (scanner), the drift   *)
(* comparator (validator) and the check command.                           *)
(*                                                                         *)
(* JavaScript strings are modelled as strings, one character per UTF-16    *)
(* code unit, and handled with Len, SubSeq and \o only.  The box-drawing   *)
(* characters of directory trees cannot be written in a string literal of  *)
(* this language; each is written as one ASCII character that occurs       *)
(* nowhere else in the inputs:                                             *)
(*     "+" is U+251C (tee)        "^" is U+2514 (corner)                   *)
(*     "|" is U+2502 (vertical)   "~" is U+2500 (horizontal)               *)
(*     "%" is U+252C              "&" is U+253C                            *)
(* and so is the backtick of a Markdown fence, written "'".                *)
(***************************************************************************)
EXTENDS Integers, Sequences, FiniteSets, TLC

VARIABLES
    \* ---- validator and check command
    doc,        \* content of the documentation file (CLAUDE.md)
    docExists,  \* whether the documentation file exists
    info,       \* the ProjectInfo handed to validateDoc
    fs,         \* the relative paths that exist under the project root
    pc,         \* position of the caller
    results,    \* findings of the first validateDoc call
    results2,   \* findings of the second validateDoc call
    exitCode,   \* process exit code of the check command (-1: still running)
    stdout,     \* what the check command printed: "", "json" or "text"
    \* ---- structure pass of the claims extractor
    readme,            \* the README text handed to the pass
    lineNo,            \* extractStructureClaims: index of the line to read next
    inCodeBlock,       \* extractStructureClaims: inside a fenced block
    codeBlockContent,  \* extractStructureClaims: lines of the open block
    structClaims,      \* extractStructureClaims: claims collected so far
    treeIdx,           \* parseDirectoryTree: index of the block line to read next
    dirStack,          \* parseDirectoryTree: stack of [indent, name]
    entries,           \* parseDirectoryTree: paths collected so far
    looksLikeTree,     \* parseDirectoryTree: the block had a tree indicator
    tpc,               \* position of the pass: "idle", "scan", "parse", "done"
    structResult,      \* what extractStructureClaims returned
    \* ---- commands pass of the claims extractor
    commandClaims,     \* what extractCommandClaims returned
    cpc,               \* position of the pass: "idle", "done"
    \* ---- normalization of a collected tech-stack claim
    rawClaim,          \* a claim as collected from a list item
    normalOnce,        \* the claim normalized
    normalTwice,       \* the normalized claim normalized again
    npc,               \* position: "idle", "once", "twice"
    \* ---- scanProject
    root,              \* the project root on disk, as scanProject reads it
    scan,              \* the fields of the ProjectInfo computed so far
    spc,               \* position of scanProject
    \* ---- mergeWithDefaults
    config,            \* the ClaudeMdConfig argument
    profileName,       \* the profileName argument ("" when omitted)
    merged,            \* what mergeWithDefaults returned
    mpc,               \* position: "idle", "called", "returned"
    \* ---- tech-stack pass of the claims extractor
    techLineNo,        \* extractTechStackClaims: index of the line to read next
    inTechSection,     \* extractTechStackClaims: inside a tech-stack section
    sectionDepth,      \* extractTechStackClaims: depth of the opening heading
    techClaims,        \* extractTechStackClaims: claims collected so far
    collectedAt,       \* history: the line each collected claim came from
    techResult,        \* what extractTechStackClaims returned
    hpc,               \* position of the pass: "idle", "lines", "done"
    \* ---- init command and HTTP server
    force,             \* the --force option of the init command
    requests,          \* the HTTP requests of the run, by connection
    configFile         \* the configuration file ~/.claudemd/config.json

vVars == <<doc, docExists, info, fs, pc, results, results2, exitCode, stdout>>
tVars == <<readme, lineNo, inCodeBlock, codeBlockContent, structClaims, treeIdx,
           dirStack, entries, looksLikeTree, tpc, structResult>>
cVars == <<commandClaims, cpc>>
nVars == <<rawClaim, normalOnce, normalTwice, npc>>
sVars == <<root, scan, spc>>
mVars == <<config, profileName, merged, mpc>>
hVars == <<techLineNo, inTechSection, sectionDepth, techClaims, collectedAt,
           techResult, hpc>>
aVars == <<force, requests, configFile>>
vars == <<vVars, tVars, cVars, nVars, sVars, mVars, hVars, aVars>>

\* what the comparator's actions, and the structure pass's, leave alone
extractorVars == <<tVars, cVars, nVars, sVars, mVars, hVars, aVars>>
notStructureVars == <<vVars, cVars, nVars, sVars, mVars, hVars, aVars>>

-----------------------------------------------------------------------------
(* String primitives of the JavaScript runtime.                            *)

CharAt(s, i) == SubSeq(s, i, i)

\* a character class is a set of one-character strings
UpperClass ==
    { "A", "B", "C", "D", "E", "F", "G", "H", "I", "J", "K", "L", "M",
      "N", "O", "P", "Q", "R", "S", "T", "U", "V", "W", "X", "Y", "Z" }
LowerClass ==
    { "a", "b", "c", "d", "e", "f", "g", "h", "i", "j", "k", "l", "m",
      "n", "o", "p", "q", "r", "s", "t", "u", "v", "w", "x", "y", "z" }
DigitClass == { "0", "1", "2", "3", "4", "5", "6", "7", "8", "9" }

InClass(c, cls) == c \in cls

LowerOf ==
    [c \in UpperClass |->
        CASE c = "A" -> "a" [] c = "B" -> "b" [] c = "C" -> "c" [] c = "D" -> "d"
          [] c = "E" -> "e" [] c = "F" -> "f" [] c = "G" -> "g" [] c = "H" -> "h"
          [] c = "I" -> "i" [] c = "J" -> "j" [] c = "K" -> "k" [] c = "L" -> "l"
          [] c = "M" -> "m" [] c = "N" -> "n" [] c = "O" -> "o" [] c = "P" -> "p"
          [] c = "Q" -> "q" [] c = "R" -> "r" [] c = "S" -> "s" [] c = "T" -> "t"
          [] c = "U" -> "u" [] c = "V" -> "v" [] c = "W" -> "w" [] c = "X" -> "x"
          [] c = "Y" -> "y" [] c = "Z" -> "z"]

LowerChar(c) == IF c \in UpperClass THEN LowerOf[c] ELSE c

\* String.prototype.toLowerCase, character by character (the text is halved
\* so that the recursion stays shallow on long texts)
RECURSIVE ToLowerCase(_)
ToLowerCase(s) ==
    IF s = "" THEN ""
    ELSE IF Len(s) = 1 THEN LowerChar(s)
    ELSE ToLowerCase(SubSeq(s, 1, Len(s) \div 2))
         \o ToLowerCase(SubSeq(s, Len(s) \div 2 + 1, Len(s)))

\* String.prototype.includes
Includes(s, t) ==
    \/ t = ""
    \/ \E i \in 1..(Len(s) - Len(t) + 1) : SubSeq(s, i, i + Len(t) - 1) = t

StartsWith(s, t) == Len(t) <= Len(s) /\ SubSeq(s, 1, Len(t)) = t
EndsWith(s, t) == Len(t) <= Len(s) /\ SubSeq(s, Len(s) - Len(t) + 1, Len(s)) = t

\* JavaScript white space that occurs in the inputs (\s, trim)
WhiteSpace == { " ", "\t", "\n", "\r" }
IsSpace(c) == InClass(c, WhiteSpace)

RECURSIVE TrimStart(_)
TrimStart(s) ==
    IF s # "" /\ IsSpace(CharAt(s, 1)) THEN TrimStart(SubSeq(s, 2, Len(s))) ELSE s

RECURSIVE TrimEnd(_)
TrimEnd(s) ==
    IF s # "" /\ IsSpace(CharAt(s, Len(s))) THEN TrimEnd(SubSeq(s, 1, Len(s) - 1)) ELSE s

Trim(s) == TrimEnd(TrimStart(s))

\* s.replace(/[cls]/g, ''): every character of the class removed
RECURSIVE RemoveChars(_, _)
RemoveChars(s, cls) ==
    IF s = "" THEN ""
    ELSE (IF InClass(CharAt(s, 1), cls) THEN "" ELSE CharAt(s, 1))
         \o RemoveChars(SubSeq(s, 2, Len(s)), cls)

\* Array.prototype.includes / indexOf on a sequence
SeqIncludes(seq, x) == \E i \in 1..Len(seq) : seq[i] = x

\* arr.filter((c, i, arr) => arr.indexOf(c) === i)
RECURSIVE DedupeFrom(_, _)
DedupeFrom(seq, i) ==
    IF i > Len(seq) THEN <<>>
    ELSE (IF \E j \in 1..(i - 1) : seq[j] = seq[i] THEN <<>> ELSE <<seq[i]>>)
         \o DedupeFrom(seq, i + 1)

Dedupe(seq) == DedupeFrom(seq, 1)

\* the null of a nullable object field
Null == [isNull |-> TRUE]

-----------------------------------------------------------------------------
(* The drift comparator: src/src/validator/index.ts                        *)
(*                                                                         *)
(* A ProjectInfo is a record [name, packageManager, structure, hasTests,   *)
(* readmeClaims].  packageManager and readmeClaims are Null or a record.   *)
(* A Record<string, string> is the sequence of its keys in enumeration     *)
(* order (the comparator never reads the values).  sourceDir is "" when    *)
(* the scanner found none: the comparator tests it for truthiness only,    *)
(* and null and "" are both falsy.                                         *)

Finding(rule, severity, message, suggestion) ==
    [rule |-> rule, severity |-> severity, message |-> message,
     suggestion |-> suggestion]

\* mutant: the documentation text is searched as written
validateTechStack_caseSensitive(content, inf) ==
    IF inf.packageManager # Null
       /\ ~Includes(content, inf.packageManager.type)
    THEN << Finding("tech-stack", "warning",
              "Project uses " \o inf.packageManager.type
                  \o " but CLAUDE.md doesn't mention it",
              "Add " \o inf.packageManager.type \o " to the Tech Stack section") >>
    ELSE <<>>

validateTechStack(content, inf) ==
    IF inf.packageManager # Null
       /\ ~Includes(ToLowerCase(content), inf.packageManager.type)
    THEN << Finding("tech-stack", "warning",
              "Project uses " \o inf.packageManager.type
                  \o " but CLAUDE.md doesn't mention it",
              "Add " \o inf.packageManager.type \o " to the Tech Stack section") >>
    ELSE <<>>

\* mutant: the documentation text is searched without lower-casing it
mentionsTdd_caseSensitive(content) ==
    Includes(content, "tdd") \/ Includes(content, "test-driven")

mentionsTdd(content) ==
    LET lower == ToLowerCase(content)
    IN  Includes(lower, "tdd") \/ Includes(lower, "test-driven")

validateTestingPractices(content, inf) ==
    (IF mentionsTdd(content) /\ ~inf.hasTests
     THEN << Finding("testing-practices", "error",
               "CLAUDE.md mentions TDD but no test files found",
               "Either add tests or update documentation to reflect actual practices") >>
     ELSE <<>>)
    \o
    (IF ~mentionsTdd(content) /\ inf.hasTests
     THEN << Finding("testing-practices", "info",
               "Project has tests but CLAUDE.md doesn't document testing approach",
               "Consider adding a Testing section to CLAUDE.md") >>
     ELSE <<>>)

validateStructure(content, inf) ==
    IF inf.structure.sourceDir # "" /\ ~Includes(content, inf.structure.sourceDir)
    THEN << Finding("structure", "info",
              "Project has '" \o inf.structure.sourceDir
                  \o "' directory but it's not documented",
              "Document the " \o inf.structure.sourceDir \o "/ directory structure") >>
    ELSE <<>>

\* name.toLowerCase().replace(/[\s\-_.]+/g, '').replace(/\.js$/, 'js')
normalizeTechName(name) ==
    LET stripped == RemoveChars(ToLowerCase(name), WhiteSpace \cup { "-", "_", "." })
    IN  IF EndsWith(stripped, ".js")
        THEN SubSeq(stripped, 1, Len(stripped) - 3) \o "js"
        ELSE stripped

utilities ==
    << "lodash", "underscore", "ramda", "axios", "node-fetch", "got",
       "dotenv", "cross-env", "uuid", "nanoid", "dayjs", "moment", "date-fns",
       "chalk", "colors", "picocolors", "debug", "winston", "pino" >>

isUtilityPackage(name) == SeqIncludes(utilities, ToLowerCase(name))

nonPackageTech ==
    << "vercel", "netlify", "github", "gitlab", "docker", "aws", "heroku",
       "railway", "node.js", "nodejs", "node", "deno", "bun",
       "claude", "claude sonnet", "openai", "gpt", "anthropic", "gemini",
       "serverless", "serverless functions", "lambda", "edge functions",
       "supabase", "firebase", "planetscale", "neon" >>

\* mutant: only an exact allowlist entry counts
isNonPackageTech_exactEntry(claimLower) == SeqIncludes(nonPackageTech, claimLower)

\* nonPackageTech.some(t => claimLower.includes(t) || t.includes(claimLower))
isNonPackageTech(claimLower) ==
    \E i \in 1..Len(nonPackageTech) :
        \/ Includes(claimLower, nonPackageTech[i])
        \/ Includes(nonPackageTech[i], claimLower)

\* mutant: the normalized names are not compared
depMatchesClaim_rawOnly(dep, claimLower) ==
    \/ dep = claimLower
    \/ Includes(dep, claimLower)
    \/ Includes(claimLower, dep)

\* the callback of depNames.some(...) in the drift loop
depMatchesClaim(dep, claimLower) ==
    LET depNormalized == normalizeTechName(dep)
        claimNormalized == normalizeTechName(claimLower)
    IN  \/ dep = claimLower
        \/ Includes(dep, claimLower)
        \/ Includes(claimLower, dep)
        \/ depNormalized = claimNormalized
        \/ Includes(depNormalized, claimNormalized)
        \/ Includes(claimNormalized, depNormalized)

\* Object.keys({...dependencies, ...devDependencies}).map(d => d.toLowerCase())
RECURSIVE LowerAll(_)
LowerAll(names) ==
    IF names = <<>> THEN <<>>
    ELSE <<ToLowerCase(Head(names))>> \o LowerAll(Tail(names))

depNamesOf(pm) == LowerAll(Dedupe(pm.dependencies \o pm.devDependencies))

DriftFinding(claim) ==
    Finding("readme-drift", "warning",
        "README claims \"" \o claim \o "\" in tech stack but not found in dependencies",
        "Verify if \"" \o claim \o "\" is still used, or update README")

\* for (const claim of claims) { ... }
RECURSIVE techDriftLoop(_, _, _)
techDriftLoop(claims, depNames, i) ==
    IF i > Len(claims) THEN <<>>
    ELSE LET claimLower == ToLowerCase(claims[i])
             found == \E k \in 1..Len(depNames) : depMatchesClaim(depNames[k], claimLower)
         IN  (IF ~found /\ ~isNonPackageTech(claimLower)
              THEN <<DriftFinding(claims[i])>> ELSE <<>>)
             \o techDriftLoop(claims, depNames, i + 1)

\* the callback of claims.some(...) in the major-dependency loop
claimMentionsDep(c, depLower) ==
    LET cLower == ToLowerCase(c)
    IN  \/ cLower = depLower
        \/ Includes(cLower, depLower)
        \/ Includes(depLower, cLower)

IncompleteFinding(dep) ==
    Finding("readme-incomplete", "info",
        "Dependency \"" \o dep \o "\" not mentioned in README tech stack",
        "Consider documenting \"" \o dep \o "\" in README if it's a key technology")

\* for (const dep of majorDeps) { ... }
RECURSIVE majorDepsLoop(_, _, _)
majorDepsLoop(majorDeps, claims, i) ==
    IF i > Len(majorDeps) THEN <<>>
    ELSE LET depLower == ToLowerCase(majorDeps[i])
             mentioned == \E k \in 1..Len(claims) : claimMentionsDep(claims[k], depLower)
         IN  (IF ~mentioned /\ ~isUtilityPackage(majorDeps[i])
              THEN <<IncompleteFinding(majorDeps[i])>> ELSE <<>>)
             \o majorDepsLoop(majorDeps, claims, i + 1)

CommandDriftFinding(claimed) ==
    Finding("readme-command-drift", "warning",
        "README documents \"npm run " \o claimed \o "\" but script doesn't exist",
        "Remove command from README or add \"" \o claimed \o "\" to package.json scripts")

\* mutant: an undocumented script is reported as a warning
CommandIncompleteFinding_warning(script) ==
    Finding("readme-command-incomplete", "warning",
        "Script \"" \o script \o "\" exists but not documented in README",
        "Consider documenting \"npm run " \o script \o "\" in README")

CommandIncompleteFinding(script) ==
    Finding("readme-command-incomplete", "info",
        "Script \"" \o script \o "\" exists but not documented in README",
        "Consider documenting \"npm run " \o script \o "\" in README")

commonScripts == << "dev", "build", "start", "test", "lint" >>

\* for (const claimed of info.readmeClaims.commands) { ... }
RECURSIVE commandDriftLoop(_, _, _)
commandDriftLoop(commands, scripts, i) ==
    IF i > Len(commands) THEN <<>>
    ELSE (IF ~SeqIncludes(scripts, commands[i])
          THEN <<CommandDriftFinding(commands[i])>> ELSE <<>>)
         \o commandDriftLoop(commands, scripts, i + 1)

\* for (const script of scripts) { ... }
RECURSIVE commandIncompleteLoop(_, _, _)
commandIncompleteLoop(scripts, commands, i) ==
    IF i > Len(scripts) THEN <<>>
    ELSE (IF SeqIncludes(commonScripts, scripts[i]) /\ ~SeqIncludes(commands, scripts[i])
          THEN <<CommandIncompleteFinding(scripts[i])>> ELSE <<>>)
         \o commandIncompleteLoop(scripts, commands, i + 1)

\* mutant: a missing package manager is read as one without scripts
validateCommandClaims_noManagerGuard(inf) ==
    IF inf.readmeClaims = Null \/ Len(inf.readmeClaims.commands) = 0
    THEN <<>>
    ELSE LET scripts == IF inf.packageManager = Null THEN <<>>
                        ELSE inf.packageManager.scripts
         IN  commandDriftLoop(inf.readmeClaims.commands, scripts, 1)
             \o commandIncompleteLoop(scripts, inf.readmeClaims.commands, 1)

\* mutant: an empty list of claimed commands does not end the function
validateCommandClaims_noCommandsGuard(inf) ==
    IF inf.readmeClaims = Null \/ inf.packageManager = Null
    THEN <<>>
    ELSE commandDriftLoop(inf.readmeClaims.commands, inf.packageManager.scripts, 1)
         \o commandIncompleteLoop(inf.packageManager.scripts, inf.readmeClaims.commands, 1)

validateCommandClaims(inf) ==
    IF inf.readmeClaims = Null \/ Len(inf.readmeClaims.commands) = 0
       \/ inf.packageManager = Null
    THEN <<>>
    ELSE commandDriftLoop(inf.readmeClaims.commands, inf.packageManager.scripts, 1)
         \o commandIncompleteLoop(inf.packageManager.scripts, inf.readmeClaims.commands, 1)

\* whether the regular expression built from pattern matches at the start of
\* s, for a pattern of letters, digits, "-", "_", "/" and ".": the pattern is
\* not escaped, so a "." in it matches any character but a line terminator
RECURSIVE regExpMatchesAt(_, _, _)
regExpMatchesAt(pattern, s, i) ==
    IF i > Len(pattern) THEN TRUE
    ELSE /\ i <= Len(s)
         /\ IF CharAt(pattern, i) = "."
            THEN CharAt(s, i) \notin { "\n", "\r" }
            ELSE CharAt(s, i) = CharAt(pattern, i)
         /\ regExpMatchesAt(pattern, s, i + 1)

\* s.replace(new RegExp("^" + projectName + "/"), '')
stripProjectPrefix(s, projectName) ==
    IF regExpMatchesAt(projectName \o "/", s, 1)
    THEN SubSeq(s, Len(projectName) + 2, Len(s))
    ELSE s

\* s.replace(/\/$/, '')
stripTrailingSlash(s) == IF EndsWith(s, "/") THEN SubSeq(s, 1, Len(s) - 1) ELSE s

\* .map(strip prefix).filter(s => s && s !== '/')
RECURSIVE normalizeStructureClaims(_, _)
normalizeStructureClaims(structure, projectName) ==
    IF structure = <<>> THEN <<>>
    ELSE LET c == stripProjectPrefix(Head(structure), projectName)
         IN  (IF c # "" /\ c # "/" THEN <<c>> ELSE <<>>)
             \o normalizeStructureClaims(Tail(structure), projectName)

\* existsSync(join(projectRoot, dirPath)): a read of the disk at call time
existsSync(disk, dirPath) == dirPath \in disk

StructureDriftFinding(claimed) ==
    Finding("readme-structure-drift", "warning",
        "README documents \"" \o claimed \o "\" but directory doesn't exist",
        "Remove \"" \o claimed \o "\" from README or create the directory")

StructureIncompleteFinding(dir) ==
    Finding("readme-structure-incomplete", "info",
        "Directory \"" \o dir \o "/\" exists but not documented in README",
        "Consider adding \"" \o dir \o "/\" to README project structure")

\* for (const claimed of normalizedClaims) { ... }
RECURSIVE structureDriftLoop(_, _, _)
structureDriftLoop(normalizedClaims, disk, i) ==
    IF i > Len(normalizedClaims) THEN <<>>
    ELSE LET dirPath == stripTrailingSlash(normalizedClaims[i])
         IN  (IF dirPath # "" /\ ~existsSync(disk, dirPath)
              THEN <<StructureDriftFinding(normalizedClaims[i])>> ELSE <<>>)
             \o structureDriftLoop(normalizedClaims, disk, i + 1)

\* mutant: only a claim of the directory itself documents it
claimDocumentsDir_exactOnly(s, dir) == stripTrailingSlash(s) = dir

\* the callback of normalizedClaims.some(...) in the directory loop
claimDocumentsDir(s, dir) ==
    LET normalized == stripTrailingSlash(s)
    IN  \/ normalized = dir
        \/ StartsWith(normalized, dir \o "/")
        \/ StartsWith(dir, normalized \o "/")

\* for (const dir of actualDirs) { ... }
RECURSIVE structureIncompleteLoop(_, _, _)
structureIncompleteLoop(actualDirs, normalizedClaims, i) ==
    IF i > Len(actualDirs) THEN <<>>
    ELSE (IF ~\E k \in 1..Len(normalizedClaims) :
                 claimDocumentsDir(normalizedClaims[k], actualDirs[i])
          THEN <<StructureIncompleteFinding(actualDirs[i])>> ELSE <<>>)
         \o structureIncompleteLoop(actualDirs, normalizedClaims, i + 1)

\* mutant: the directory loops run on an empty list of structure claims too
validateStructureClaims_noEmptyGuard(inf, disk) ==
    IF inf.readmeClaims = Null
    THEN <<>>
    ELSE LET normalizedClaims ==
                 normalizeStructureClaims(inf.readmeClaims.structure, inf.name)
         IN  structureDriftLoop(normalizedClaims, disk, 1)
             \o structureIncompleteLoop(inf.structure.directories, normalizedClaims, 1)

validateStructureClaims(inf, disk) ==
    IF inf.readmeClaims = Null \/ Len(inf.readmeClaims.structure) = 0
    THEN <<>>
    ELSE LET normalizedClaims ==
                 normalizeStructureClaims(inf.readmeClaims.structure, inf.name)
         IN  structureDriftLoop(normalizedClaims, disk, 1)
             \o structureIncompleteLoop(inf.structure.directories, normalizedClaims, 1)

\* mutant: development dependencies are treated as major dependencies too
validateTechClaims_allDeps(inf) ==
    techDriftLoop(inf.readmeClaims.techStack, depNamesOf(inf.packageManager), 1)
    \o majorDepsLoop(Dedupe(inf.packageManager.dependencies
                                \o inf.packageManager.devDependencies),
                     inf.readmeClaims.techStack, 1)

\* the tech-stack part of validateReadmeClaims (after the package-manager guard)
validateTechClaims(inf) ==
    techDriftLoop(inf.readmeClaims.techStack, depNamesOf(inf.packageManager), 1)
    \o majorDepsLoop(inf.packageManager.dependencies, inf.readmeClaims.techStack, 1)

validateReadmeClaims(inf, disk) ==
    IF inf.readmeClaims = Null THEN <<>>
    ELSE validateStructureClaims(inf, disk)
         \o validateCommandClaims(inf)
         \o (IF inf.packageManager = Null THEN <<>> ELSE validateTechClaims(inf))

\* mutant: the README-claim findings are pushed first
validateDoc_readmeFirst(claudeMdContent, projectInfo, disk) ==
    validateReadmeClaims(projectInfo, disk)
    \o validateTechStack(claudeMdContent, projectInfo)
    \o validateTestingPractices(claudeMdContent, projectInfo)
    \o validateStructure(claudeMdContent, projectInfo)

\* validateDoc(claudeMdContent, projectInfo); disk is the state of the file
\* system when the call is made, which validateStructureClaims reads
validateDoc(claudeMdContent, projectInfo, disk) ==
    validateTechStack(claudeMdContent, projectInfo)
    \o validateTestingPractices(claudeMdContent, projectInfo)
    \o validateStructure(claudeMdContent, projectInfo)
    \o validateReadmeClaims(projectInfo, disk)

-----------------------------------------------------------------------------
(* The check command: src/unnamed/part_003 (commands/check.ts)             *)

\* mutant: warnings fail the run as errors do
hasErrors_countsWarnings(res) ==
    \E i \in 1..Len(res) : res[i].severity \in { "error", "warning" }

hasErrors(res) == \E i \in 1..Len(res) : res[i].severity = "error"

-----------------------------------------------------------------------------
(* Inputs.  The sets below bound the documentation texts and ProjectInfo   *)
(* values the model explores; every value is one the scanner can produce   *)
(* or a caller of validateDoc can pass.                                    *)

MaxDocParts == 2       \* fragments per documentation text
MaxTechClaims == 2     \* entries of readmeClaims.techStack
MaxDeps == 2           \* runtime dependencies of the manifest
MaxScripts == 2        \* scripts of the manifest
MaxCommands == 2       \* entries of readmeClaims.commands
MaxStructClaims == 2   \* entries of readmeClaims.structure

SeqsUpTo(S, n) == UNION { [1..k -> S] : k \in 0..n }
InjSeqsUpTo(S, n) ==
    { q \in SeqsUpTo(S, n) : \A i, j \in 1..Len(q) : i # j => q[i] # q[j] }

RECURSIVE JoinWith(_, _)
JoinWith(parts, sep) ==
    IF parts = <<>> THEN ""
    ELSE IF Len(parts) = 1 THEN parts[1]
    ELSE parts[1] \o sep \o JoinWith(Tail(parts), sep)

DocParts ==
    { "We follow strict TDD.", "Test-Driven", "built with NPM", "pip",
      "see src/", "Lib and cargo" }
Docs == { JoinWith(q, " ") : q \in SeqsUpTo(DocParts, MaxDocParts) }

TechClaimPool == { "React", "Tailwind CSS", "Vercel", "Angular", "Git", "AWS Lambda" }
DepPool == { "react-dom", "tailwindcss", "lodash", "custom-auth-lib" }
DevDepChoices == { <<>>, <<"vitest">>, <<"angular", "React">> }
ScriptPool == { "build", "test", "deploy", "dev" }
CommandPool == { "build", "test", "deploy", "lint" }
StructClaimPool == { "src/", "app/", "app/src/", "src/components/", "docs/", "/" }
DirChoices == { <<>>, <<"src">>, <<"src", "docs">>, <<"tests", "lib">> }
DiskPaths == { "src", "docs", "src/components" }

Npm(deps, devDeps, scripts) ==
    [type |-> "npm", configFile |-> "package.json", dependencies |-> deps,
     devDependencies |-> devDeps, scripts |-> scripts]
Pip == [type |-> "pip", configFile |-> "requirements.txt", dependencies |-> <<>>,
        devDependencies |-> <<>>, scripts |-> <<>>]
Cargo == [type |-> "cargo", configFile |-> "Cargo.toml", dependencies |-> <<>>,
          devDependencies |-> <<>>, scripts |-> <<>>]

Claims(techStack, structure, commands) ==
    [techStack |-> techStack, structure |-> structure, commands |-> commands]

Project(pm, dirs, sourceDir, hasTests, claims) ==
    [name |-> "app", packageManager |-> pm,
     structure |-> [directories |-> dirs, sourceDir |-> sourceDir],
     hasTests |-> hasTests, readmeClaims |-> claims]

\* every rule family at once, on a few documentation texts
CoreInfos ==
    { Project(pm, <<"src", "lib">>, sd, ht, rc) :
        pm \in { Null, Pip, Cargo, Npm(<<"react">>, <<"jest">>, <<"build", "start">>) },
        sd \in { "", "src", "lib" },
        ht \in BOOLEAN,
        rc \in { Null, Claims(<<"React", "Angular">>, <<"src/", "docs/">>, <<"build", "serve">>) } }

\* tech-stack claims against dependencies
TechInfos ==
    { Project(Npm(deps, dev, <<>>), <<"src">>, "src", TRUE, Claims(ts, <<>>, <<>>)) :
        deps \in InjSeqsUpTo(DepPool, MaxDeps),
        dev \in DevDepChoices,
        ts \in SeqsUpTo(TechClaimPool, MaxTechClaims) }

\* command claims against scripts
CommandInfos ==
    { Project(pm, <<"src">>, "src", TRUE, Claims(<<"React">>, <<>>, cmds)) :
        pm \in { Null } \cup { Npm(<<"lodash">>, <<>>, sc) : sc \in InjSeqsUpTo(ScriptPool, MaxScripts) },
        cmds \in InjSeqsUpTo(CommandPool, MaxCommands) }

\* structure claims against directories
StructInfos ==
    { Project(pm, dirs, "", FALSE, Claims(<<>>, st, <<>>)) :
        pm \in { Null, Pip },
        dirs \in DirChoices,
        st \in SeqsUpTo(StructClaimPool, MaxStructClaims) }

\* the same project under another name
Renamed(inf, name) == [inf EXCEPT !.name = name]

\* structure claims of a project whose name holds a "."
DottedNameClaimPool == { "my.app/src/", "my-app/src/", "my-app/docs/" }
DottedNameInfos ==
    { Renamed(Project(Null, dirs, "", FALSE, Claims(<<>>, st, <<>>)), "my.app") :
        dirs \in DirChoices,
        st \in SeqsUpTo(DottedNameClaimPool, MaxStructClaims) }

Scenarios ==
    [doc : Docs, info : CoreInfos, fs : {{"src"}}]
    \cup [doc : {"built with npm in src"}, info : TechInfos \cup CommandInfos, fs : {{"src"}}]
    \cup [doc : {"pip"}, info : StructInfos, fs : SUBSET DiskPaths]
    \cup [doc : {"pip"}, info : DottedNameInfos, fs : SUBSET DiskPaths]

-----------------------------------------------------------------------------
(* Spec: one validateDoc call, or one run of the check command.            *)

\* scanProject is not running
ScanIdle == root = Null /\ scan = Null /\ spc = "idle"

\* mergeWithDefaults is not called
MergeIdle == config = Null /\ profileName = "" /\ merged = Null /\ mpc = "idle"

\* the init command and the HTTP server are not running
AppIdle == force = FALSE /\ requests = <<>> /\ configFile = Null

\* the tech-stack pass is not running
TechPassIdle ==
    /\ techLineNo = 0
    /\ inTechSection = FALSE
    /\ sectionDepth = 0
    /\ techClaims = <<>>
    /\ collectedAt = <<>>
    /\ techResult = <<>>
    /\ hpc = "idle"

\* the structure and commands passes and the normalization are not running
ExtractorIdle ==
    /\ readme = ""
    /\ lineNo = 0
    /\ inCodeBlock = FALSE
    /\ codeBlockContent = <<>>
    /\ structClaims = <<>>
    /\ treeIdx = 0
    /\ dirStack = <<>>
    /\ entries = <<>>
    /\ looksLikeTree = FALSE
    /\ tpc = "idle"
    /\ structResult = <<>>
    /\ commandClaims = <<>>
    /\ cpc = "idle"
    /\ rawClaim = ""
    /\ normalOnce = ""
    /\ normalTwice = ""
    /\ npc = "idle"

Init ==
    /\ \E sc \in Scenarios :
          /\ doc = sc.doc /\ info = sc.info /\ fs = sc.fs
    /\ docExists \in BOOLEAN
    /\ docExists = FALSE => doc = "" /\ info \in CoreInfos /\ info.readmeClaims = Null
    /\ pc = "start"
    /\ results = <<>>
    /\ results2 = <<>>
    /\ exitCode = -1
    /\ stdout = ""
    /\ ExtractorIdle
    /\ ScanIdle /\ MergeIdle /\ TechPassIdle /\ AppIdle

\* a caller reads the documentation file and calls validateDoc
Validate ==
    /\ pc = "start"
    /\ docExists
    /\ results' = validateDoc(doc, info, fs)
    /\ pc' = "validated"
    /\ UNCHANGED <<doc, docExists, info, fs, results2, exitCode, stdout, extractorVars>>

\* checkCommand({file, json}); info is what scanProject returned
CheckCommand(json) ==
    /\ pc = "start"
    /\ IF ~docExists
       THEN /\ exitCode' = 1
            /\ UNCHANGED <<results, stdout>>
       ELSE /\ results' = validateDoc(doc, info, fs)
            /\ stdout' = IF json THEN "json" ELSE "text"
            /\ exitCode' = IF hasErrors(results') THEN 1 ELSE 0
    /\ pc' = "exited"
    /\ UNCHANGED <<doc, docExists, info, fs, results2, extractorVars>>

Next ==
    \/ Validate
    \/ \E json \in BOOLEAN : CheckCommand(json)

Spec == Init /\ [][Next]_vars

-----------------------------------------------------------------------------
(* SpecRepeat: two validateDoc calls with the same arguments, while other  *)
(* processes create and remove directories under the project root.         *)

RepeatInfos ==
    { i \in StructInfos : i.packageManager = Null /\ i.structure.directories = <<"src">> }

InitRepeat ==
    /\ doc = "pip"
    /\ docExists = TRUE
    /\ info \in RepeatInfos
    /\ fs \in SUBSET DiskPaths
    /\ pc = "start"
    /\ results = <<>>
    /\ results2 = <<>>
    /\ exitCode = -1
    /\ stdout = ""
    /\ ExtractorIdle
    /\ ScanIdle /\ MergeIdle /\ TechPassIdle /\ AppIdle

FirstCall ==
    /\ pc = "start"
    /\ results' = validateDoc(doc, info, fs)
    /\ pc' = "called1"
    /\ UNCHANGED <<doc, docExists, info, fs, results2, exitCode, stdout, extractorVars>>

\* mkdir under the project root, by anyone
Mkdir(p) ==
    /\ pc = "called1"
    /\ p \notin fs
    /\ fs' = fs \cup {p}
    /\ UNCHANGED <<doc, docExists, info, pc, results, results2, exitCode, stdout, extractorVars>>

\* rmdir under the project root, by anyone
Rmdir(p) ==
    /\ pc = "called1"
    /\ p \in fs
    /\ fs' = fs \ {p}
    /\ UNCHANGED <<doc, docExists, info, pc, results, results2, exitCode, stdout, extractorVars>>

SecondCall ==
    /\ pc = "called1"
    /\ results2' = validateDoc(doc, info, fs)
    /\ pc' = "called2"
    /\ UNCHANGED <<doc, docExists, info, fs, results, exitCode, stdout, extractorVars>>

NextRepeat ==
    \/ FirstCall
    \/ \E p \in DiskPaths : Mkdir(p)
    \/ \E p \in DiskPaths : Rmdir(p)
    \/ SecondCall

SpecRepeat == InitRepeat /\ [][NextRepeat]_vars

-----------------------------------------------------------------------------
(* Claims about the comparator and the check command.                      *)

Rules(res) == { res[i].rule : i \in 1..Len(res) }
WithSeverity(res, sev) == { i \in 1..Len(res) : res[i].severity = sev }

PackageManagerRules ==
    { "tech-stack", "readme-drift", "readme-incomplete",
      "readme-command-drift", "readme-command-incomplete" }

\* C1: when ProjectInfo.packageManager is null, validateDoc returns no finding
\* whose rule is tech-stack, readme-drift, readme-incomplete,
\* readme-command-drift or readme-command-incomplete, whatever the README
\* claims contain.
C1_NoManagerNoManagerFindings ==
    (pc = "validated" /\ info.packageManager = Null)
        => Rules(results) \cap PackageManagerRules = {}

C1_Witness ==
    /\ pc = "validated"
    /\ info.packageManager = Null
    /\ info.readmeClaims # Null
    /\ Len(info.readmeClaims.commands) > 0
    /\ Len(info.readmeClaims.techStack) > 0
    /\ Len(results) > 0

\* s contains t when letter case is ignored
ContainsIgnoringCase(s, t) ==
    \E i \in 0..(Len(s) - Len(t)) :
        \A k \in 1..Len(t) : LowerChar(CharAt(s, i + k)) = LowerChar(CharAt(t, k))

ClaimsTdd(text) ==
    ContainsIgnoringCase(text, "tdd") \/ ContainsIgnoringCase(text, "test-driven")

\* C2: validateDoc returns an error-severity finding if and only if the
\* documentation text contains "tdd" or "test-driven" in any letter case and
\* hasTests is false; then there is exactly one error-severity finding and its
\* rule is testing-practices.
C2_ErrorIffTddWithoutTests ==
    pc = "validated" =>
        LET errors == WithSeverity(results, "error")
        IN  /\ (errors # {}) <=> (ClaimsTdd(doc) /\ ~info.hasTests)
            /\ Cardinality(errors) <= 1
            /\ \A i \in errors : results[i].rule = "testing-practices"

C2_Witness ==
    /\ pc = "validated"
    /\ doc = "We follow strict TDD."
    /\ ~info.hasTests
    /\ Len(results) = 1
    /\ results[1].rule = "testing-practices"
    /\ results[1].severity = "error"

\* C3: when the documentation file exists, the check command exits with code 1
\* if and only if a returned finding has severity error and with code 0
\* otherwise, in the text and in the --json output mode alike.
C3_ExitCodeIffError ==
    (pc = "exited" /\ docExists)
        => /\ stdout \in { "json", "text" }
           /\ exitCode = IF WithSeverity(results, "error") # {} THEN 1 ELSE 0

C3_Witness ==
    /\ pc = "exited"
    /\ docExists
    /\ stdout = "json"
    /\ exitCode = 0
    /\ WithSeverity(results, "warning") # {}
    /\ WithSeverity(results, "info") # {}

\* C4: two validateDoc calls with the identical documentation text and the
\* identical ProjectInfo return identical ordered lists of findings, whatever
\* happens between the calls.
C4_RepeatedCallSameFindings ==
    pc = "called2" => results2 = results

InResults(f) == \E i \in 1..Len(results) : results[i] = f
CountInResults(f) == Cardinality({ i \in 1..Len(results) : results[i] = f })

\* the configuration the README tech-stack rules run in
TechRulesRan ==
    pc = "validated" /\ info.packageManager # Null /\ info.readmeClaims # Null

AllDependencyNames ==
    { info.packageManager.dependencies[i] : i \in 1..Len(info.packageManager.dependencies) }
    \cup { info.packageManager.devDependencies[i] :
             i \in 1..Len(info.packageManager.devDependencies) }

RuntimeDependencyNames ==
    { info.packageManager.dependencies[i] : i \in 1..Len(info.packageManager.dependencies) }

TechStackClaims ==
    { info.readmeClaims.techStack[i] : i \in 1..Len(info.readmeClaims.techStack) }

\* one string contains the other, letter case ignored
EitherContains(a, b) == ContainsIgnoringCase(a, b) \/ ContainsIgnoringCase(b, a)

\* whitespace, '-', '_' and '.' removed, lower-cased
Squash(s) == RemoveChars(ToLowerCase(s), { " ", "-", "_", "." })

\* the six tests of the claim-to-dependency match
MatchesDependency(c, d) ==
    \/ ToLowerCase(c) = ToLowerCase(d)
    \/ EitherContains(c, d)
    \/ Squash(c) = Squash(d)
    \/ Includes(Squash(c), Squash(d))
    \/ Includes(Squash(d), Squash(c))

MatchedByNoDependency(c) == \A d \in AllDependencyNames : ~MatchesDependency(c, d)

AllowlistEntries == { nonPackageTech[i] : i \in 1..Len(nonPackageTech) }

\* C5 as stated: a tech-stack claim that matches no dependency name is flagged
\* readme-drift exactly when it is not an entry of the allowlist of non-package
\* technologies, compared case-insensitively.
C5_FlaggedIffNotAllowlistEntry ==
    TechRulesRan =>
        \A c \in TechStackClaims :
            MatchedByNoDependency(c)
                => (InResults(DriftFinding(c)) <=> ToLowerCase(c) \notin AllowlistEntries)

\* C5 as amended: a tech-stack claim that matches no dependency name is flagged
\* readme-drift exactly when no allowlist entry contains it or is contained in
\* it, letter case ignored; in particular no allowlist entry is flagged.
C5_FlaggedIffNoAllowlistSubstring ==
    TechRulesRan =>
        /\ \A c \in TechStackClaims :
              MatchedByNoDependency(c)
                  => (InResults(DriftFinding(c))
                        <=> \A t \in AllowlistEntries : ~EitherContains(c, t))
        /\ \A t \in AllowlistEntries : ~InResults(DriftFinding(t))

C5_Witness ==
    /\ TechRulesRan
    /\ { "Git", "Angular" } \subseteq TechStackClaims
    /\ MatchedByNoDependency("Git")
    /\ MatchedByNoDependency("Angular")
    /\ ~InResults(DriftFinding("Git"))
    /\ InResults(DriftFinding("Angular"))

\* C6: a tech-stack claim c for which some dependency d (runtime or
\* development) passes one of the six tests (lower-cased equality, containment
\* either way, equality of the normalized names, containment of the normalized
\* names either way) gets no readme-drift finding.
C6_MatchedClaimNotFlagged ==
    TechRulesRan =>
        \A c \in TechStackClaims :
            (\E d \in AllDependencyNames : MatchesDependency(c, d))
                => ~InResults(DriftFinding(c))

C6_Witness ==
    /\ TechRulesRan
    /\ info.readmeClaims.techStack = << "Tailwind CSS", "Angular" >>
    /\ info.packageManager.dependencies = << "tailwindcss" >>
    /\ info.packageManager.devDependencies = << "vitest" >>
    /\ ~InResults(DriftFinding("Tailwind CSS"))
    /\ InResults(DriftFinding("Angular"))

UtilityNames == { utilities[i] : i \in 1..Len(utilities) }

\* C7: a readme-incomplete finding is emitted for a dependency d exactly when
\* d is a runtime dependency, no tech-stack claim equals, contains or is
\* contained in d (letter case ignored) and d is not in the utility allowlist;
\* never for an allowlisted name or a development-only dependency.
C7_IncompleteIffUnmentionedRuntimeDep ==
    TechRulesRan =>
        /\ \A d \in AllDependencyNames \cup UtilityNames :
              CountInResults(IncompleteFinding(d)) =
                  IF /\ d \in RuntimeDependencyNames
                     /\ \A c \in TechStackClaims : ~EitherContains(c, d)
                     /\ ToLowerCase(d) \notin UtilityNames
                  THEN 1 ELSE 0
        /\ \A i \in 1..Len(results) :
              results[i].rule = "readme-incomplete"
                  => \E d \in RuntimeDependencyNames : results[i] = IncompleteFinding(d)

C7_Witness ==
    /\ TechRulesRan
    /\ info.readmeClaims.techStack = <<>>
    /\ info.packageManager.dependencies = << "lodash", "custom-auth-lib" >>
    /\ info.packageManager.devDependencies = << "angular", "React" >>
    /\ InResults(IncompleteFinding("custom-auth-lib"))
    /\ ~InResults(IncompleteFinding("lodash"))
    /\ Cardinality({ i \in 1..Len(results) : results[i].rule = "readme-incomplete" }) = 1

-----------------------------------------------------------------------------
(* The claims extractor, structure pass: src/unnamed/part_003              *)
(* (scanner/index.ts), extractStructureClaims and parseDirectoryTree.      *)

\* readme.split('\n')
RECURSIVE SplitLinesFrom(_, _, _)
SplitLinesFrom(s, i, cur) ==
    IF i > Len(s) THEN <<cur>>
    ELSE IF CharAt(s, i) = "\n" THEN <<cur>> \o SplitLinesFrom(s, i + 1, "")
    ELSE SplitLinesFrom(s, i + 1, cur \o CharAt(s, i))

SplitLines(s) == SplitLinesFrom(s, 1, "")

\* the tree-drawing characters (see the top of the module)
TreeChars == { "+", "^", "|", "~", "%", "&" }

\* line.match(/^([\s|+^~%&]*)/)[1].length
RECURSIVE LeadingRun(_, _)
LeadingRun(s, cls) ==
    IF s # "" /\ InClass(CharAt(s, 1), cls)
    THEN 1 + LeadingRun(SubSeq(s, 2, Len(s)), cls)
    ELSE 0

indentOf(line) == LeadingRun(line, WhiteSpace \cup TreeChars)

\* the first non-white-space character at or after position i ("" if none)
RECURSIVE NextNonSpace(_, _)
NextNonSpace(s, i) ==
    IF i > Len(s) THEN ""
    ELSE IF IsSpace(CharAt(s, i)) THEN NextNonSpace(s, i + 1)
    ELSE CharAt(s, i)

\* where /\s+#.*$/ matches first (0 if nowhere)
RECURSIVE CommentStart(_, _)
CommentStart(s, i) ==
    IF i > Len(s) THEN 0
    ELSE IF IsSpace(CharAt(s, i)) /\ NextNonSpace(s, i) = "#" THEN i
    ELSE CommentStart(s, i + 1)

\* s.replace(/\s+#.*$/, '')
stripComment(s) ==
    IF CommentStart(s, 1) = 0 THEN s ELSE SubSeq(s, 1, CommentStart(s, 1) - 1)

\* line.replace(/[+^|~%&]/g, '').replace(/\s+#.*$/, '').trim()
cleanedOf(line) == Trim(stripComment(RemoveChars(line, TreeChars)))

\* line.includes(tee) || line.includes(corner) || line.includes(vertical)
hasTreeIndicator(line) ==
    Includes(line, "+") \/ Includes(line, "^") \/ Includes(line, "|")

\* mutant: only the glyphs make a block a tree
looksLikeTreeAfter_glyphsOnly(looks, line, cleaned) ==
    looks \/ hasTreeIndicator(line)

\* looksLikeTree after a non-blank line: set by a glyph of the line and by a
\* cleaned line that ends with "/"
looksLikeTreeAfter(looks, line, cleaned) ==
    looks \/ hasTreeIndicator(line) \/ EndsWith(cleaned, "/")

\* mutant: at most one entry is popped
popDeeper_popsOne(stack, indent) ==
    IF Len(stack) > 0 /\ stack[Len(stack)].indent >= indent
    THEN SubSeq(stack, 1, Len(stack) - 1)
    ELSE stack

\* mutant: entries of equal indentation stay on the stack
RECURSIVE popDeeper_strictlyDeeper(_, _)
popDeeper_strictlyDeeper(stack, indent) ==
    IF Len(stack) > 0 /\ stack[Len(stack)].indent > indent
    THEN popDeeper_strictlyDeeper(SubSeq(stack, 1, Len(stack) - 1), indent)
    ELSE stack

\* while (dirStack.length > 0 && dirStack[dirStack.length - 1].indent >= indent) pop
RECURSIVE popDeeper(_, _)
popDeeper(stack, indent) ==
    IF Len(stack) > 0 /\ stack[Len(stack)].indent >= indent
    THEN popDeeper(SubSeq(stack, 1, Len(stack) - 1), indent)
    ELSE stack

\* dirStack.map(d => d.name).join('')
RECURSIVE parentPathOf(_)
parentPathOf(stack) ==
    IF stack = <<>> THEN "" ELSE Head(stack).name \o parentPathOf(Tail(stack))

\* line.trim().startsWith(three backticks)
isFence(line) == StartsWith(Trim(line), "'''")

readmeLines == SplitLines(readme)

\* extractStructureClaims(readme): entry
StartStructurePass ==
    /\ tpc = "idle"
    /\ tpc' = "scan"
    /\ lineNo' = 1
    /\ inCodeBlock' = FALSE
    /\ codeBlockContent' = <<>>
    /\ structClaims' = <<>>
    /\ UNCHANGED <<readme, treeIdx, dirStack, entries, looksLikeTree, structResult, notStructureVars>>

\* one iteration of the loop over the README lines; a closing fence calls
\* parseDirectoryTree
ScanLine ==
    /\ tpc = "scan"
    /\ lineNo <= Len(readmeLines)
    /\ LET line == readmeLines[lineNo]
       IN  IF isFence(line) /\ inCodeBlock
           THEN /\ tpc' = "parse"
                /\ treeIdx' = 1
                /\ dirStack' = <<>>
                /\ entries' = <<>>
                /\ looksLikeTree' = FALSE
                /\ UNCHANGED <<lineNo, inCodeBlock, codeBlockContent>>
           ELSE /\ inCodeBlock' = IF isFence(line) THEN ~inCodeBlock ELSE inCodeBlock
                /\ codeBlockContent' =
                      IF ~isFence(line) /\ inCodeBlock
                      THEN Append(codeBlockContent, line) ELSE codeBlockContent
                /\ lineNo' = lineNo + 1
                /\ UNCHANGED <<tpc, treeIdx, dirStack, entries, looksLikeTree>>
    /\ UNCHANGED <<readme, structClaims, structResult, notStructureVars>>

\* parseDirectoryTree: one iteration of the loop over the block's lines
ParseLine ==
    /\ tpc = "parse"
    /\ treeIdx <= Len(codeBlockContent)
    /\ LET line == codeBlockContent[treeIdx]
           indent == indentOf(line)
           cleaned == cleanedOf(line)
           popped == popDeeper(dirStack, indent)
       IN  IF cleaned = ""
           THEN UNCHANGED <<dirStack, entries, looksLikeTree>>
           ELSE IF EndsWith(cleaned, "/")
           THEN /\ entries' = Append(entries, parentPathOf(popped) \o cleaned)
                /\ dirStack' = Append(popped, [indent |-> indent, name |-> cleaned])
                /\ looksLikeTree' = looksLikeTreeAfter(looksLikeTree, line, cleaned)
           ELSE /\ dirStack' = popped
                /\ looksLikeTree' = looksLikeTreeAfter(looksLikeTree, line, cleaned)
                /\ UNCHANGED entries
    /\ treeIdx' = treeIdx + 1
    /\ UNCHANGED <<readme, lineNo, inCodeBlock, codeBlockContent, structClaims, tpc,
                   structResult, notStructureVars>>

\* parseDirectoryTree returns; the caller pushes the entries, empties the
\* block and leaves it
ReturnTree ==
    /\ tpc = "parse"
    /\ treeIdx > Len(codeBlockContent)
    /\ structClaims' = structClaims \o (IF looksLikeTree THEN entries ELSE <<>>)
    /\ codeBlockContent' = <<>>
    /\ inCodeBlock' = FALSE
    /\ lineNo' = lineNo + 1
    /\ tpc' = "scan"
    /\ UNCHANGED <<readme, treeIdx, dirStack, entries, looksLikeTree, structResult, notStructureVars>>

\* extractStructureClaims returns the deduplicated claims
FinishStructurePass ==
    /\ tpc = "scan"
    /\ lineNo > Len(readmeLines)
    /\ structResult' = Dedupe(structClaims)
    /\ tpc' = "done"
    /\ UNCHANGED <<readme, lineNo, inCodeBlock, codeBlockContent, structClaims, treeIdx,
                   dirStack, entries, looksLikeTree, notStructureVars>>

MaxTreeLines == 3      \* lines of a fenced block

TreeLinePool ==
    { "src/", "+~~ components/", "^~~ utils.ts", "|   ^~~ ui/", "  lib/",
      "    core/  # engine", "", "|", "docs/" }

TreeBlocks == SeqsUpTo(TreeLinePool, MaxTreeLines)

Fenced(block) == <<"'''">> \o block \o <<"'''">>

StructureReadmes ==
    { JoinWith(<<"# app">> \o Fenced(b), "\n") : b \in TreeBlocks }
    \cup { JoinWith(Fenced(b1) \o <<"text">> \o Fenced(b2), "\n") :
             b1, b2 \in SeqsUpTo({ "src/", "  lib/", "^~~ a.ts" }, 2) }
    \cup { JoinWith(<<"'''bash">> \o b, "\n") : b \in SeqsUpTo({ "src/", "  lib/" }, 2) }

\* the comparator and the check command are not running
ValidatorIdle ==
    /\ doc = ""
    /\ docExists = FALSE
    /\ info = Null
    /\ fs = {}
    /\ pc = "idle"
    /\ results = <<>>
    /\ results2 = <<>>
    /\ exitCode = -1
    /\ stdout = ""

InitTree ==
    /\ ValidatorIdle
    /\ readme \in StructureReadmes
    /\ lineNo = 0
    /\ inCodeBlock = FALSE
    /\ codeBlockContent = <<>>
    /\ structClaims = <<>>
    /\ treeIdx = 0
    /\ dirStack = <<>>
    /\ entries = <<>>
    /\ looksLikeTree = FALSE
    /\ tpc = "idle"
    /\ structResult = <<>>
    /\ commandClaims = <<>>
    /\ cpc = "idle"
    /\ rawClaim = ""
    /\ normalOnce = ""
    /\ normalTwice = ""
    /\ npc = "idle"
    /\ ScanIdle /\ MergeIdle /\ TechPassIdle /\ AppIdle

NextTree ==
    \/ StartStructurePass
    \/ ScanLine
    \/ ParseLine
    \/ ReturnTree
    \/ FinishStructurePass

SpecTree == InitTree /\ [][NextTree]_vars

-----------------------------------------------------------------------------
(* Claims about the structure pass.                                        *)

IsDirectoryLine(block, k) == EndsWith(cleanedOf(block[k]), "/")

\* line j is a directory line above line i that no line after it, up to and
\* including i, reaches back to: every non-blank line k in (j, i] is indented
\* strictly deeper than j
IsAncestorLine(block, j, i) ==
    /\ j < i
    /\ IsDirectoryLine(block, j)
    /\ \A k \in (j + 1)..i :
          cleanedOf(block[k]) # "" => indentOf(block[k]) > indentOf(block[j])

\* the names of the ancestor lines j, j + 1, ..., i - 1 of line i, root first
RECURSIVE AncestorNames(_, _, _)
AncestorNames(block, j, i) ==
    IF j >= i THEN ""
    ELSE (IF IsAncestorLine(block, j, i) THEN cleanedOf(block[j]) ELSE "")
         \o AncestorNames(block, j + 1, i)

\* the claims of the first n lines of a block, one per directory line
RECURSIVE AncestryPaths(_, _)
AncestryPaths(block, n) ==
    IF n = 0 THEN <<>>
    ELSE AncestryPaths(block, n - 1)
         \o (IF IsDirectoryLine(block, n)
             THEN << AncestorNames(block, 1, n) \o cleanedOf(block[n]) >>
             ELSE <<>>)

ExampleTreeReadme == "# app\n'''\nsrc/\n+~~ components/\n^~~ utils.ts\n'''"

\* C8: a line of a fenced block produces a claim only if its cleaned text ends
\* in '/', and the claim is the concatenation, root first, of the names of the
\* directory lines still on the ancestry stack followed by the line's own name;
\* the block src/, (tee) components/, (corner) utils.ts yields exactly
\* ["src/", "src/components/"].
C8_ClaimIsAncestryPath ==
    /\ tpc = "parse" => entries = AncestryPaths(codeBlockContent, treeIdx - 1)
    /\ (tpc = "done" /\ readmeLines[1] = "# app")
          => structResult =
                Dedupe(AncestryPaths(SubSeq(readmeLines, 3, Len(readmeLines) - 1),
                                     Len(readmeLines) - 3))
    /\ (tpc = "done" /\ readme = ExampleTreeReadme)
          => structResult = << "src/", "src/components/" >>

C8_Witness ==
    /\ tpc = "done"
    /\ readme = ExampleTreeReadme
    /\ structResult = << "src/", "src/components/" >>

-----------------------------------------------------------------------------
(* The claims extractor, commands pass: src/unnamed/part_003               *)
(* (scanner/index.ts), extractCommandClaims.                               *)
(* A match result is [ok, name, next]: whether the pattern matches at the  *)
(* position, the captured group, and the index after the match (the        *)
(* regular expression's lastIndex, plus one).                              *)

NoMatch == [ok |-> FALSE, name |-> "", next |-> 0]

\* the index after the white-space run that starts at p (p if there is none)
RECURSIVE SkipSpaces(_, _)
SkipSpaces(s, p) ==
    IF p <= Len(s) /\ IsSpace(CharAt(s, p)) THEN SkipSpaces(s, p + 1) ELSE p

\* the index after the run of characters of cls that starts at p
RECURSIVE SkipClass(_, _, _)
SkipClass(s, p, cls) ==
    IF p <= Len(s) /\ InClass(CharAt(s, p), cls) THEN SkipClass(s, p + 1, cls) ELSE p

LitAt(s, p, lit) ==
    p + Len(lit) - 1 <= Len(s) /\ SubSeq(s, p, p + Len(lit) - 1) = lit

LetterClass == UpperClass \cup LowerClass
\* [a-zA-Z0-9_:-]
ScriptNameClass == LetterClass \cup DigitClass \cup { "_", ":", "-" }

\* \s+([a-zA-Z][a-zA-Z0-9_:-]*) at p
scriptNameAt(s, p) ==
    LET q == SkipSpaces(s, p)
        e == SkipClass(s, q, ScriptNameClass)
    IN  IF q > p /\ q <= Len(s) /\ InClass(CharAt(s, q), LetterClass)
        THEN [ok |-> TRUE, name |-> SubSeq(s, q, e - 1), next |-> e]
        ELSE NoMatch

\* (?:npm\s+run|yarn\s+run|pnpm\s+run) at p, then the script name
managerRunAt(s, p, manager) ==
    LET q == SkipSpaces(s, p + Len(manager))
    IN  IF LitAt(s, p, manager) /\ q > p + Len(manager) /\ LitAt(s, q, "run")
        THEN scriptNameAt(s, q + 3)
        ELSE NoMatch

npmRunPatternAt(s, p) ==
    IF managerRunAt(s, p, "npm").ok THEN managerRunAt(s, p, "npm")
    ELSE IF managerRunAt(s, p, "yarn").ok THEN managerRunAt(s, p, "yarn")
    ELSE managerRunAt(s, p, "pnpm")

\* (?:yarn|pnpm)\s+([a-zA-Z][a-zA-Z0-9_:-]*) at p
shortPatternAt(s, p) ==
    IF LitAt(s, p, "yarn") /\ scriptNameAt(s, p + 4).ok THEN scriptNameAt(s, p + 4)
    ELSE IF LitAt(s, p, "pnpm") THEN scriptNameAt(s, p + 4)
    ELSE NoMatch

subcommands ==
    << "add", "remove", "install", "init", "run", "global", "config", "cache",
       "link", "unlink" >>

\* while ((match = npmRunPattern.exec(readme)) !== null) claims.push(match[1])
RECURSIVE npmRunLoop(_, _)
npmRunLoop(s, p) ==
    IF p > Len(s) THEN <<>>
    ELSE IF npmRunPatternAt(s, p).ok
    THEN << npmRunPatternAt(s, p).name >> \o npmRunLoop(s, npmRunPatternAt(s, p).next)
    ELSE npmRunLoop(s, p + 1)

\* the second loop without its stoplist of yarn/pnpm subcommands
RECURSIVE shortLoop_noStoplist(_, _, _)
shortLoop_noStoplist(s, p, claims) ==
    IF p > Len(s) THEN claims
    ELSE LET m == shortPatternAt(s, p)
         IN  IF m.ok
             THEN shortLoop_noStoplist(s, m.next,
                      IF ~SeqIncludes(claims, m.name)
                      THEN Append(claims, m.name) ELSE claims)
             ELSE shortLoop_noStoplist(s, p + 1, claims)

\* while ((match = shortPattern.exec(readme)) !== null) { ... }
RECURSIVE shortLoop(_, _, _)
shortLoop(s, p, claims) ==
    IF p > Len(s) THEN claims
    ELSE LET m == shortPatternAt(s, p)
         IN  IF m.ok
             THEN shortLoop(s, m.next,
                      IF ~SeqIncludes(subcommands, m.name) /\ ~SeqIncludes(claims, m.name)
                      THEN Append(claims, m.name) ELSE claims)
             ELSE shortLoop(s, p + 1, claims)

extractCommandClaims(text) == Dedupe(shortLoop(text, 1, npmRunLoop(text, 1)))

MaxPhrases == 3        \* command phrases per README text

PhrasePool ==
    { "npm run build", "npm run test", "yarn run build", "pnpm run lint",
      "yarn test", "pnpm build", "yarn dev", "yarn add", "npm install",
      "pnpm  run  dev:watch" }

CommandReadmes ==
    { JoinWith(q, ", then ") : q \in SeqsUpTo(PhrasePool, MaxPhrases) }
    \cup { "Run 'npm run build' or 'npm run test' to verify." }

InitCommands ==
    /\ ValidatorIdle
    /\ readme \in CommandReadmes
    /\ lineNo = 0
    /\ inCodeBlock = FALSE
    /\ codeBlockContent = <<>>
    /\ structClaims = <<>>
    /\ treeIdx = 0
    /\ dirStack = <<>>
    /\ entries = <<>>
    /\ looksLikeTree = FALSE
    /\ tpc = "idle"
    /\ structResult = <<>>
    /\ commandClaims = <<>>
    /\ cpc = "idle"
    /\ rawClaim = ""
    /\ normalOnce = ""
    /\ normalTwice = ""
    /\ npc = "idle"
    /\ ScanIdle /\ MergeIdle /\ TechPassIdle /\ AppIdle

ExtractCommands ==
    /\ cpc = "idle"
    /\ commandClaims' = extractCommandClaims(readme)
    /\ cpc' = "done"
    /\ UNCHANGED <<vVars, tVars, nVars, sVars, mVars, hVars, aVars>>

NextCommands == ExtractCommands

SpecCommands == InitCommands /\ [][NextCommands]_vars

-----------------------------------------------------------------------------
(* Claims about the commands pass.                                         *)

SeqMin(S) == CHOOSE p \in S : \A q \in S : p <= q

\* where in the README a "run" form names the script x
RunSeenAt(x) ==
    { p \in 1..Len(readme) : npmRunPatternAt(readme, p).ok /\ npmRunPatternAt(readme, p).name = x }

\* where in the README a bare yarn/pnpm form names the script x
ShortSeenAt(x) ==
    { p \in 1..Len(readme) :
        /\ shortPatternAt(readme, p).ok
        /\ shortPatternAt(readme, p).name = x
        /\ ~SeqIncludes(subcommands, x) }

NoDuplicates(seq) == \A i, j \in 1..Len(seq) : i # j => seq[i] # seq[j]

-----------------------------------------------------------------------------
(* The claims extractor, normalization of the collected tech-stack claims: *)
(* src/unnamed/part_003 (scanner/index.ts), extractTechStackClaims, the    *)
(* chain of .map calls that ends the function.                             *)

\* the index of the first ")" at or after p, or 0
RECURSIVE FirstCloseParen(_, _)
FirstCloseParen(s, p) ==
    IF p > Len(s) THEN 0
    ELSE IF CharAt(s, p) = ")" THEN p
    ELSE FirstCloseParen(s, p + 1)

\* c.replace(/\([^)]*\)/g, '')
RECURSIVE removeParentheticalsFrom(_, _)
removeParentheticalsFrom(s, p) ==
    IF p > Len(s) THEN ""
    ELSE IF CharAt(s, p) = "(" /\ FirstCloseParen(s, p) # 0
    THEN removeParentheticalsFrom(s, FirstCloseParen(s, p) + 1)
    ELSE CharAt(s, p) \o removeParentheticalsFrom(s, p + 1)

removeParentheticals(c) == removeParentheticalsFrom(c, 1)

\* c.replace(/\*\*/g, '')
RECURSIVE removeBoldFrom(_, _)
removeBoldFrom(s, p) ==
    IF p > Len(s) THEN ""
    ELSE IF LitAt(s, p, "**") THEN removeBoldFrom(s, p + 2)
    ELSE CharAt(s, p) \o removeBoldFrom(s, p + 1)

removeBold(c) == removeBoldFrom(c, 1)

\* the index after (\.\d+)* at p
RECURSIVE SkipDotGroups(_, _)
SkipDotGroups(s, p) ==
    IF /\ p + 1 <= Len(s)
       /\ CharAt(s, p) = "."
       /\ InClass(CharAt(s, p + 1), DigitClass)
    THEN SkipDotGroups(s, SkipClass(s, p + 1, DigitClass))
    ELSE p

\* whether [v]\d+(\.\d+)*\s*$ matches at p; the "v" is tried only if vPrefix
versionTailAt(s, p, vPrefix) ==
    LET d == IF vPrefix /\ p <= Len(s) /\ CharAt(s, p) = "v" THEN p + 1 ELSE p
    IN  /\ d <= Len(s)
        /\ InClass(CharAt(s, d), DigitClass)
        /\ SkipSpaces(s, SkipDotGroups(s, SkipClass(s, d, DigitClass))) = Len(s) + 1

\* c.replace(/\s+v?\d+(\.\d+)*\s*$/, ''): the leftmost match is cut off
RECURSIVE stripVersionFrom(_, _, _)
stripVersionFrom(s, p, vPrefix) ==
    IF p > Len(s) THEN s
    ELSE IF IsSpace(CharAt(s, p)) /\ versionTailAt(s, SkipSpaces(s, p), vPrefix)
    THEN SubSeq(s, 1, p - 1)
    ELSE stripVersionFrom(s, p + 1, vPrefix)

stripTrailingVersion(c) == stripVersionFrom(c, 1, FALSE)
stripTrailingVVersion(c) == stripVersionFrom(c, 1, TRUE)

\* the four .map steps applied to one claim
normalizeClaim(c) ==
    Trim(stripTrailingVVersion(
        Trim(stripTrailingVersion(
            Trim(removeBold(
                Trim(removeParentheticals(c))))))))

MaxClaimTokens == 4    \* space-separated tokens per raw tech-stack claim

ClaimTokenPool == { "React", "18", "v2", "1.2.3", "(beta)", "**Vite**" }

RawClaims == { JoinWith(q, " ") : q \in SeqsUpTo(ClaimTokenPool, MaxClaimTokens) }

InitNormalize ==
    /\ ValidatorIdle
    /\ readme = ""
    /\ lineNo = 0
    /\ inCodeBlock = FALSE
    /\ codeBlockContent = <<>>
    /\ structClaims = <<>>
    /\ treeIdx = 0
    /\ dirStack = <<>>
    /\ entries = <<>>
    /\ looksLikeTree = FALSE
    /\ tpc = "idle"
    /\ structResult = <<>>
    /\ commandClaims = <<>>
    /\ cpc = "idle"
    /\ rawClaim \in RawClaims
    /\ normalOnce = ""
    /\ normalTwice = ""
    /\ npc = "idle"
    /\ ScanIdle /\ MergeIdle /\ TechPassIdle /\ AppIdle

\* the normalization of a collected claim
NormalizeOnce ==
    /\ npc = "idle"
    /\ normalOnce' = normalizeClaim(rawClaim)
    /\ npc' = "once"
    /\ UNCHANGED <<vVars, tVars, cVars, sVars, mVars, hVars, aVars, rawClaim, normalTwice>>

\* the normalization of the normalized form
NormalizeTwice ==
    /\ npc = "once"
    /\ normalTwice' = normalizeClaim(normalOnce)
    /\ npc' = "twice"
    /\ UNCHANGED <<vVars, tVars, cVars, sVars, mVars, hVars, aVars, rawClaim, normalOnce>>

NextNormalize == NormalizeOnce \/ NormalizeTwice

SpecNormalize == InitNormalize /\ [][NextNormalize]_vars

-----------------------------------------------------------------------------
(* Claims about the normalization.                                         *)

\* C10: the normalization of tech-stack claims is idempotent: normalizing
\* the normalized form of any string returns it unchanged.
C10_NormalizationIdempotent ==
    npc = "twice" => normalTwice = normalOnce

-----------------------------------------------------------------------------
(* The claims extractor, tech-stack pass: src/unnamed/part_003             *)
(* (scanner/index.ts), extractTechStackClaims.                             *)

techHeadings == << "tech stack", "built with", "technologies", "stack" >>

\* line.match(/^(#{1,6})\s+(.+)/): [ok, depth, text]
headingMatch(line) ==
    LET n == LeadingRun(line, { "#" })
        q == SkipSpaces(line, n + 1)
    IN  IF n \in 1..6 /\ q > n + 1 /\ Len(line) >= n + 2
        THEN [ok |-> TRUE, depth |-> n,
              text |-> IF q <= Len(line) THEN SubSeq(line, q, Len(line))
                       ELSE CharAt(line, Len(line))]
        ELSE [ok |-> FALSE, depth |-> 0, text |-> ""]

\* techHeadings.some(h => headingText.includes(h))
isTechHeading(headingText) ==
    \E k \in 1..Len(techHeadings) : Includes(ToLowerCase(headingText), techHeadings[k])

\* the index of the first ":" at or after p, or 0
RECURSIVE FirstColon(_, _)
FirstColon(s, p) ==
    IF p > Len(s) THEN 0
    ELSE IF CharAt(s, p) = ":" THEN p
    ELSE FirstColon(s, p + 1)

\* whether /^\s+\*?\*?([^:*]+)\*?\*?$/ matches p, a string without ":"
labelMatch(p) ==
    \E a \in 1..Len(p), k \in 0..2, t \in 0..2 :
        /\ a + k + 1 <= Len(p) - t
        /\ \A i \in 1..a : IsSpace(CharAt(p, i))
        /\ \A i \in (a + 1)..(a + k) : CharAt(p, i) = "*"
        /\ \A i \in (a + k + 1)..(Len(p) - t) : CharAt(p, i) # "*"
        /\ \A i \in (Len(p) - t + 1)..Len(p) : CharAt(p, i) = "*"

isBullet(line) == Len(line) >= 1 /\ CharAt(line, 1) \in { "-", "*" }

\* line.match(/^[-*]\s+\*?\*?([^:*]+)\*?\*?:\s*(.+)/): [ok, values]; the
\* label cannot hold a ":", so the ":" of the match is the first of the line
listMatch(line) ==
    LET c == FirstColon(line, 1)
    IN  IF isBullet(line) /\ c > 2 /\ Len(line) > c /\ labelMatch(SubSeq(line, 2, c - 1))
        THEN [ok |-> TRUE, values |-> SubSeq(line, c + 1, Len(line))]
        ELSE [ok |-> FALSE, values |-> ""]

\* line.match(/^[-*]\s+(.+)/): [ok, value]
simpleListMatch(line) ==
    IF isBullet(line) /\ Len(line) >= 3 /\ IsSpace(CharAt(line, 2))
    THEN [ok |-> TRUE, value |-> SubSeq(line, 3, Len(line))]
    ELSE [ok |-> FALSE, value |-> ""]

\* s.split(/,/)
RECURSIVE SplitCommaFrom(_, _, _)
SplitCommaFrom(s, i, cur) ==
    IF i > Len(s) THEN <<cur>>
    ELSE IF CharAt(s, i) = "," THEN <<cur>> \o SplitCommaFrom(s, i + 1, "")
    ELSE SplitCommaFrom(s, i + 1, cur \o CharAt(s, i))

\* .map(t => t.trim()).filter(Boolean)
RECURSIVE trimmedNonEmpty(_)
trimmedNonEmpty(parts) ==
    IF parts = <<>> THEN <<>>
    ELSE (IF Trim(Head(parts)) # "" THEN << Trim(Head(parts)) >> ELSE <<>>)
         \o trimmedNonEmpty(Tail(parts))

\* what one line of an open section adds to claims
claimsOfLine(line) ==
    IF listMatch(line).ok
    THEN trimmedNonEmpty(SplitCommaFrom(listMatch(line).values, 1, ""))
    ELSE IF simpleListMatch(line).ok THEN << Trim(simpleListMatch(line).value) >>
    ELSE <<>>

\* mutant: a heading of the entry depth does not close the section
closesSection_deeperOnly(depth, entryDepth) == depth < entryDepth

\* if (inTechSection && depth <= sectionDepth) inTechSection = false
closesSection(depth, entryDepth) == depth <= entryDepth

\* the body of the for loop: the state [inTechSection, sectionDepth, claims]
\* after the line
techLineStep(st, line) ==
    LET h == headingMatch(line)
    IN  IF h.ok /\ isTechHeading(h.text)
        THEN [st EXCEPT !.inTechSection = TRUE, !.sectionDepth = h.depth]
        ELSE LET open == IF h.ok /\ st.inTechSection /\ closesSection(h.depth, st.sectionDepth)
                         THEN FALSE ELSE st.inTechSection
             IN  [inTechSection |-> open,
                  sectionDepth |-> st.sectionDepth,
                  claims |-> IF open THEN st.claims \o claimsOfLine(line) ELSE st.claims]

\* .map(normalize) of the return statement
RECURSIVE normalizeAll(_)
normalizeAll(claims) ==
    IF claims = <<>> THEN <<>>
    ELSE << normalizeClaim(Head(claims)) >> \o normalizeAll(Tail(claims))

\* .filter(c => c.length > 1)
RECURSIVE dropTiny(_)
dropTiny(claims) ==
    IF claims = <<>> THEN <<>>
    ELSE (IF Len(Head(claims)) > 1 THEN << Head(claims) >> ELSE <<>>)
         \o dropTiny(Tail(claims))

\* the return statement: normalize, drop tiny strings, dedupe
normalizeClaims(claims) == Dedupe(dropTiny(normalizeAll(claims)))

RECURSIVE techLinesFrom(_, _, _)
techLinesFrom(lines, i, st) ==
    IF i > Len(lines) THEN st
    ELSE techLinesFrom(lines, i + 1, techLineStep(st, lines[i]))

extractTechStackClaims(text) ==
    normalizeClaims(
        techLinesFrom(SplitLines(text), 1,
            [inTechSection |-> FALSE, sectionDepth |-> 0, claims |-> <<>>]).claims)

\* the structure pass is not running (the README text apart)
StructurePassIdle ==
    /\ lineNo = 0
    /\ inCodeBlock = FALSE
    /\ codeBlockContent = <<>>
    /\ structClaims = <<>>
    /\ treeIdx = 0
    /\ dirStack = <<>>
    /\ entries = <<>>
    /\ looksLikeTree = FALSE
    /\ tpc = "idle"
    /\ structResult = <<>>

\* the commands pass is not running
CommandsPassIdle == commandClaims = <<>> /\ cpc = "idle"

\* no claim is being normalized
NormalizeIdle == rawClaim = "" /\ normalOnce = "" /\ normalTwice = "" /\ npc = "idle"

MaxTechLines == 4      \* lines per README text handed to the tech-stack pass

TechLinePool ==
    { "# Tech Stack", "## Built With", "## Usage", "### Details", "# About",
      "- React 18", "- **UI**: Vue, Vite" }

TechReadmes ==
    { JoinWith(q, "\n") : q \in SeqsUpTo(TechLinePool, MaxTechLines) \ { <<>> } }

InitTech ==
    /\ ValidatorIdle
    /\ readme \in TechReadmes
    /\ StructurePassIdle /\ CommandsPassIdle /\ NormalizeIdle
    /\ ScanIdle /\ MergeIdle /\ AppIdle
    /\ techLineNo = 0
    /\ inTechSection = FALSE
    /\ sectionDepth = 0
    /\ techClaims = <<>>
    /\ collectedAt = <<>>
    /\ techResult = <<>>
    /\ hpc = "idle"

notTechVars == <<vVars, tVars, cVars, nVars, sVars, mVars, aVars>>

\* extractTechStackClaims(readme): the declarations before the loop
StartTechPass ==
    /\ hpc = "idle"
    /\ techLineNo' = 1
    /\ inTechSection' = FALSE
    /\ sectionDepth' = 0
    /\ techClaims' = <<>>
    /\ hpc' = "lines"
    /\ UNCHANGED <<collectedAt, techResult, notTechVars>>

\* one iteration of for (const line of lines)
TechLine ==
    /\ hpc = "lines"
    /\ techLineNo <= Len(readmeLines)
    /\ LET st == techLineStep([inTechSection |-> inTechSection,
                               sectionDepth |-> sectionDepth,
                               claims |-> techClaims], readmeLines[techLineNo])
       IN  /\ inTechSection' = st.inTechSection
           /\ sectionDepth' = st.sectionDepth
           /\ techClaims' = st.claims
           /\ collectedAt' = collectedAt
                  \o [k \in 1..(Len(st.claims) - Len(techClaims)) |-> techLineNo]
    /\ techLineNo' = techLineNo + 1
    /\ UNCHANGED <<techResult, hpc, notTechVars>>

\* the return statement
FinishTechPass ==
    /\ hpc = "lines"
    /\ techLineNo > Len(readmeLines)
    /\ techResult' = normalizeClaims(techClaims)
    /\ hpc' = "done"
    /\ UNCHANGED <<techLineNo, inTechSection, sectionDepth, techClaims, collectedAt,
                   notTechVars>>

NextTech == StartTechPass \/ TechLine \/ FinishTechPass

SpecTech == InitTech /\ [][NextTech]_vars

-----------------------------------------------------------------------------
(* Claims about the tech-stack pass.                                       *)

\* the lines read so far
LinesRead == 1..(techLineNo - 1)

IsHeadingLine(i) == headingMatch(readmeLines[i]).ok
DepthOfLine(i) == headingMatch(readmeLines[i]).depth
IsTechHeadingLine(i) ==
    IsHeadingLine(i) /\ isTechHeading(headingMatch(readmeLines[i]).text)
IsListItemLine(i) == claimsOfLine(readmeLines[i]) # <<>>
CollectedLines == { collectedAt[n] : n \in 1..Len(collectedAt) }

\* the section opened by the matching heading j is open at line i: no
\* non-matching heading of its depth or less lies between
OpenSince(j, i) ==
    /\ j < i
    /\ IsTechHeadingLine(j)
    /\ \A k \in (j + 1)..(i - 1) :
          (IsHeadingLine(k) /\ ~IsTechHeadingLine(k)) => DepthOfLine(k) > DepthOfLine(j)

\* C18 as stated: the section opened by a matching heading of depth d stays
\* open across every later heading deeper than d and is closed by the first
\* later non-matching heading of depth d or less; a list item is collected
\* exactly when it lies in a section that is open in this sense.
C18_OpenUntilShallowerHeading ==
    hpc \in { "lines", "done" } =>
        \A i \in LinesRead :
            IsListItemLine(i) =>
                (i \in CollectedLines <=> \E j \in 1..(i - 1) : OpenSince(j, i))

\* the last matching heading before line i, or 0
LastTechHeadingBefore(i) ==
    IF \E j \in 1..(i - 1) : IsTechHeadingLine(j)
    THEN CHOOSE j \in 1..(i - 1) :
            IsTechHeadingLine(j) /\ \A k \in (j + 1)..(i - 1) : ~IsTechHeadingLine(k)
    ELSE 0

\* C18 as amended: every matching heading opens the section anew with its own
\* depth d; the section stays open across later headings deeper than the depth
\* of the most recent matching heading and is closed by the first later
\* non-matching heading of that depth or less; list items outside an open
\* section are never collected.
C18_OpenSinceLastMatchingHeading ==
    hpc \in { "lines", "done" } =>
        /\ \A i \in LinesRead :
              IsListItemLine(i) =>
                  (i \in CollectedLines <=>
                      /\ LastTechHeadingBefore(i) # 0
                      /\ OpenSince(LastTechHeadingBefore(i), i))
        /\ CollectedLines \subseteq { i \in LinesRead : IsListItemLine(i) }

C18_Witness ==
    /\ hpc = "done"
    /\ readme = "# Tech Stack\n### Details\n- React 18\n# About"
    /\ inTechSection = FALSE
    /\ techResult = << "React" >>

-----------------------------------------------------------------------------
(* The claims extractor as functions of the README text:                   *)
(* src/unnamed/part_003 (scanner/index.ts), parseDirectoryTree,            *)
(* extractStructureClaims and parseReadmeClaims.                           *)

\* parseDirectoryTree: the state [dirStack, entries, looksLikeTree] after the
\* lines from index i on
RECURSIVE parseTreeFrom(_, _, _)
parseTreeFrom(lines, i, st) ==
    IF i > Len(lines) THEN st
    ELSE LET line == lines[i]
             indent == indentOf(line)
             cleaned == cleanedOf(line)
             popped == popDeeper(st.dirStack, indent)
         IN  parseTreeFrom(lines, i + 1,
                 IF cleaned = "" THEN st
                 ELSE IF EndsWith(cleaned, "/")
                 THEN [dirStack |-> Append(popped, [indent |-> indent, name |-> cleaned]),
                       entries |-> Append(st.entries, parentPathOf(popped) \o cleaned),
                       looksLikeTree |-> looksLikeTreeAfter(st.looksLikeTree, line, cleaned)]
                 ELSE [dirStack |-> popped,
                       entries |-> st.entries,
                       looksLikeTree |-> looksLikeTreeAfter(st.looksLikeTree, line, cleaned)])

parseDirectoryTree(lines) ==
    LET st == parseTreeFrom(lines, 1,
                  [dirStack |-> <<>>, entries |-> <<>>, looksLikeTree |-> FALSE])
    IN  IF st.looksLikeTree THEN st.entries ELSE <<>>

\* extractStructureClaims: the claims collected from line i on
RECURSIVE structureLinesFrom(_, _, _, _)
structureLinesFrom(lines, i, inBlock, block) ==
    IF i > Len(lines) THEN <<>>
    ELSE IF isFence(lines[i])
    THEN (IF inBlock THEN parseDirectoryTree(block) ELSE <<>>)
         \o structureLinesFrom(lines, i + 1, ~inBlock, IF inBlock THEN <<>> ELSE block)
    ELSE structureLinesFrom(lines, i + 1, inBlock,
             IF inBlock THEN Append(block, lines[i]) ELSE block)

extractStructureClaims(text) ==
    Dedupe(structureLinesFrom(SplitLines(text), 1, FALSE, <<>>))

parseReadmeClaims(text) ==
    [techStack |-> extractTechStackClaims(text),
     structure |-> extractStructureClaims(text),
     commands |-> extractCommandClaims(text)]

-----------------------------------------------------------------------------
(* scanProject: src/src/scanner/index.ts (the same lines in                *)
(* src/unnamed/part_003).                                                  *)
(*                                                                         *)
(* The project root is a record [base, packageJson, requirementsTxt,       *)
(* cargoToml, entries, workflows, gitlabCi, readme]: base is the last      *)
(* segment of rootPath; packageJson is [state, name, dependencies,         *)
(* devDependencies, scripts] with state "absent", "malformed" (the file is *)
(* not JSON) or "valid"; entries is what readdirSync lists, as             *)
(* [name, isDirectory]; workflows and readme are [exists, ...].            *)

\* JSON.parse(readFileSync(packageJsonPath)) throws a SyntaxError
parseThrows(r) == r.packageJson.state = "malformed"

\* existsSync(join(rootPath, 'package.json'))
hasPackageJson(r) == r.packageJson.state # "absent"

\* existsSync(join(rootPath, name)) for a name directly under the root
entryExists(r, name) == \E k \in 1..Len(r.entries) : r.entries[k].name = name

\* getProjectName, when it returns
getProjectName(r) ==
    IF hasPackageJson(r) /\ r.packageJson.name # "" THEN r.packageJson.name
    ELSE IF r.base # "" THEN r.base
    ELSE "unknown"

\* mutant: Cargo.toml is looked for before requirements.txt
detectPackageManager_cargoFirst(r) ==
    IF hasPackageJson(r)
    THEN Npm(r.packageJson.dependencies, r.packageJson.devDependencies,
             r.packageJson.scripts)
    ELSE IF r.cargoToml THEN Cargo
    ELSE IF r.requirementsTxt THEN Pip
    ELSE Null

\* detectPackageManager, when it returns
detectPackageManager(r) ==
    IF hasPackageJson(r)
    THEN Npm(r.packageJson.dependencies, r.packageJson.devDependencies,
             r.packageJson.scripts)
    ELSE IF r.requirementsTxt THEN Pip
    ELSE IF r.cargoToml THEN Cargo
    ELSE Null

\* entries.filter(isDirectory, not hidden, not node_modules).map(e => e.name)
RECURSIVE directoriesOf(_)
directoriesOf(ents) ==
    IF ents = <<>> THEN <<>>
    ELSE (IF /\ Head(ents).isDirectory
             /\ ~StartsWith(Head(ents).name, ".")
             /\ Head(ents).name # "node_modules"
          THEN << Head(ents).name >> ELSE <<>>)
         \o directoriesOf(Tail(ents))

\* directories.find(d => ['src', 'lib', 'source'].includes(d)) || null
RECURSIVE findSourceDir(_)
findSourceDir(dirs) ==
    IF dirs = <<>> THEN ""
    ELSE IF Head(dirs) \in { "src", "lib", "source" } THEN Head(dirs)
    ELSE findSourceDir(Tail(dirs))

analyzeStructure(r) ==
    [directories |-> directoriesOf(r.entries),
     hasSource |-> findSourceDir(directoriesOf(r.entries)) # "",
     sourceDir |-> findSourceDir(directoriesOf(r.entries))]

testDirs == << "tests", "test", "__tests__", "spec" >>

\* for (const dir of testDirs) if (existsSync(...)) testPatterns.push(...)
RECURSIVE testDirPatterns(_, _)
testDirPatterns(r, i) ==
    IF i > Len(testDirs) THEN <<>>
    ELSE (IF entryExists(r, testDirs[i]) THEN << testDirs[i] \o "/**/*" >> ELSE <<>>)
         \o testDirPatterns(r, i + 1)

\* the patterns pushed for the frameworks among the development dependencies
frameworkPatterns(pm) ==
    IF pm # Null /\ pm.type = "npm"
    THEN (IF SeqIncludes(pm.devDependencies, "vitest")
          THEN << "*.test.ts", "*.spec.ts" >> ELSE <<>>)
         \o (IF SeqIncludes(pm.devDependencies, "jest")
             THEN << "*.test.js", "*.test.ts" >> ELSE <<>>)
         \o (IF SeqIncludes(pm.devDependencies, "mocha")
             THEN << "*.spec.js" >> ELSE <<>>)
    ELSE <<>>

\* hasTests is assigned in the loop over testDirs only
detectTestSetup(r, pm) ==
    [hasTests |-> \E i \in 1..Len(testDirs) : entryExists(r, testDirs[i]),
     testPatterns |-> testDirPatterns(r, 1) \o frameworkPatterns(pm)]

\* readdirSync(githubWorkflows).filter(yml or yaml)
RECURSIVE workflowFiles(_)
workflowFiles(files) ==
    IF files = <<>> THEN <<>>
    ELSE (IF EndsWith(Head(files), ".yml") \/ EndsWith(Head(files), ".yaml")
          THEN << Head(files) >> ELSE <<>>)
         \o workflowFiles(Tail(files))

detectCiCd(r) ==
    IF r.workflows.exists
    THEN [platform |-> "github", files |-> workflowFiles(r.workflows.files)]
    ELSE IF r.gitlabCi THEN [platform |-> "gitlab", files |-> << ".gitlab-ci.yml" >>]
    ELSE Null

\* the package.json files the model explores
PackageJsonChoices ==
    { [state |-> st, name |-> "", dependencies |-> <<>>, devDependencies |-> <<>>,
       scripts |-> <<>>] : st \in { "absent", "malformed" } }
    \cup { [state |-> "valid", name |-> n, dependencies |-> d, devDependencies |-> dd,
            scripts |-> sc] :
             n \in { "", "my-app" },
             d \in { <<>>, << "react" >> },
             dd \in { <<>>, << "vitest" >>, << "typescript", "jest", "mocha" >> },
             sc \in { <<>>, << "build" >> } }

Dir(name) == [name |-> name, isDirectory |-> TRUE]
File(name) == [name |-> name, isDirectory |-> FALSE]

EntryChoices ==
    { << File("index.js") >>,
      << Dir(".git"), Dir("node_modules"), Dir("src"), Dir("tests") >>,
      << Dir("docs"), Dir("lib"), File("spec") >>,
      << Dir("__tests__"), Dir("source") >> }

WorkflowChoices ==
    { [exists |-> FALSE, files |-> <<>>],
      [exists |-> TRUE, files |-> << "ci.yml", "notes.txt", "release.yaml" >>] }

NoReadme == [isNull |-> TRUE]
ReadmeFile(text) == [isNull |-> FALSE, text |-> text]

ScanReadmeChoices ==
    { NoReadme, ReadmeFile(""),
      ReadmeFile("## Stack\n- Vue 3\n'''\nsrc/\n'''\nyarn dev") }

Roots ==
    [base : { "app" },
     packageJson : PackageJsonChoices,
     requirementsTxt : BOOLEAN,
     cargoToml : BOOLEAN,
     entries : EntryChoices,
     workflows : WorkflowChoices,
     gitlabCi : BOOLEAN,
     readme : ScanReadmeChoices]

InitScan ==
    /\ ValidatorIdle
    /\ readme = ""
    /\ StructurePassIdle /\ CommandsPassIdle /\ NormalizeIdle
    /\ MergeIdle /\ TechPassIdle /\ AppIdle
    /\ root \in Roots
    /\ scan = Null
    /\ spc = "start"

notScanVars == <<vVars, tVars, cVars, nVars, mVars, hVars, aVars>>

\* const name = getProjectName(rootPath); a throw rejects the promise
GetProjectName ==
    /\ spc = "start"
    /\ IF hasPackageJson(root) /\ parseThrows(root)
       THEN /\ spc' = "threw"
            /\ UNCHANGED scan
       ELSE /\ scan' = [name |-> getProjectName(root)]
            /\ spc' = "named"
    /\ UNCHANGED <<root, notScanVars>>

\* const packageManager = detectPackageManager(rootPath)
DetectPackageManager ==
    /\ spc = "named"
    /\ IF hasPackageJson(root) /\ parseThrows(root)
       THEN /\ spc' = "threw"
            /\ UNCHANGED scan
       ELSE /\ scan' = scan @@ [packageManager |-> detectPackageManager(root)]
            /\ spc' = "managed"
    /\ UNCHANGED <<root, notScanVars>>

\* const structure = analyzeStructure(rootPath)
AnalyzeStructure ==
    /\ spc = "managed"
    /\ scan' = scan @@ [structure |-> analyzeStructure(root)]
    /\ spc' = "structured"
    /\ UNCHANGED <<root, notScanVars>>

\* const { hasTests, testPatterns } = detectTestSetup(rootPath, packageManager)
DetectTestSetup ==
    /\ spc = "structured"
    /\ scan' = scan @@ detectTestSetup(root, scan.packageManager)
    /\ spc' = "tested"
    /\ UNCHANGED <<root, notScanVars>>

\* const cicd = detectCiCd(rootPath)
DetectCiCd ==
    /\ spc = "tested"
    /\ scan' = scan @@ [cicd |-> detectCiCd(root)]
    /\ spc' = "cicd"
    /\ UNCHANGED <<root, notScanVars>>

\* const readme = readReadme(rootPath);
\* const readmeClaims = readme ? parseReadmeClaims(readme) : null
ReadReadme ==
    /\ spc = "cicd"
    /\ scan' = scan @@
          [readme |-> root.readme,
           readmeClaims |-> IF root.readme # NoReadme /\ root.readme.text # ""
                            THEN parseReadmeClaims(root.readme.text)
                            ELSE Null]
    /\ spc' = "read"
    /\ UNCHANGED <<root, notScanVars>>

\* return { name, path: rootPath, packageManager, ... }
ReturnProjectInfo ==
    /\ spc = "read"
    /\ spc' = "returned"
    /\ UNCHANGED <<root, scan, notScanVars>>

NextScan ==
    \/ GetProjectName
    \/ DetectPackageManager
    \/ AnalyzeStructure
    \/ DetectTestSetup
    \/ DetectCiCd
    \/ ReadReadme
    \/ ReturnProjectInfo

SpecScan == InitScan /\ [][NextScan]_vars

-----------------------------------------------------------------------------
(* Claims about scanProject.                                               *)

\* C11: when package.json exists and is not valid JSON, the scan does not
\* fail: it completes and returns a ProjectInfo whose packageManager is null,
\* with structure, tests, CI and README filled in.
C11_MalformedManifestScanCompletes ==
    root.packageJson.state = "malformed" =>
        /\ spc # "threw"
        /\ spc = "returned" =>
              /\ scan.packageManager = Null
              /\ scan.structure = analyzeStructure(root)
              /\ scan.readme = root.readme

TestDirectoryNames == { "tests", "test", "__tests__", "spec" }
TestFrameworkNames == { "vitest", "jest", "mocha" }

SomeTestDirectoryExists ==
    \E k \in 1..Len(root.entries) : root.entries[k].name \in TestDirectoryNames

SomeTestFrameworkInstalled ==
    \E k \in 1..Len(root.packageJson.devDependencies) :
        root.packageJson.devDependencies[k] \in TestFrameworkNames

\* C12: hasTests of the returned ProjectInfo is true if and only if one of
\* the test directories tests, test, __tests__, spec exists under the root or
\* one of the frameworks vitest, jest, mocha is a development dependency.
C12_HasTestsIsUnionOfSignals ==
    spc = "returned" =>
        (scan.hasTests <=> (SomeTestDirectoryExists \/ SomeTestFrameworkInstalled))

\* the type of the first manifest that exists, in the order package.json,
\* requirements.txt, Cargo.toml ("" if none exists)
FirstManifestType ==
    IF root.packageJson.state # "absent" THEN "npm"
    ELSE IF root.requirementsTxt THEN "pip"
    ELSE IF root.cargoToml THEN "cargo"
    ELSE ""

\* C20: the packageManager of the returned ProjectInfo has the type of the
\* first manifest that exists in the order package.json (npm),
\* requirements.txt (pip), Cargo.toml (cargo), whichever later ones exist
\* too, and is null exactly when none of the three exists.
C20_FirstManifestWins ==
    spc = "returned" =>
        /\ scan.packageManager = Null <=> FirstManifestType = ""
        /\ scan.packageManager # Null => scan.packageManager.type = FirstManifestType

C20_Witness ==
    /\ spc = "returned"
    /\ root.packageJson.state = "absent"
    /\ root.requirementsTxt
    /\ root.cargoToml
    /\ scan.packageManager.type = "pip"

-----------------------------------------------------------------------------
(* The configuration: src/src/config/index.ts, getProfile and              *)
(* mergeWithDefaults.                                                      *)
(*                                                                         *)
(* A ClaudeMdConfig is [activeProfile, globalDefaults, profiles];          *)
(* activeProfile is "" when the key is absent (undefined and "" are both   *)
(* falsy).  globalDefaults and a profile's defaults are functions from the *)
(* keys present to their values.  profiles is a sequence of                *)
(* [name, defaults].                                                       *)

\* name || config.activeProfile || 'default'
selectedProfileName(cfg, name) ==
    IF name # "" THEN name
    ELSE IF cfg.activeProfile # "" THEN cfg.activeProfile
    ELSE "default"

\* config.profiles.find(p => p.name === profileName): the first one, or Null
RECURSIVE findProfile(_, _)
findProfile(profiles, name) ==
    IF profiles = <<>> THEN Null
    ELSE IF Head(profiles).name = name THEN Head(profiles)
    ELSE findProfile(Tail(profiles), name)

getProfile(cfg, name) == findProfile(cfg.profiles, selectedProfileName(cfg, name))

\* { ...a, ...b }: the keys of both, b's value where both have the key
Spread(a, b) == b @@ a

\* mutant: the global defaults are spread last
mergeWithDefaults_globalLast(cfg, name) ==
    IF getProfile(cfg, name) = Null THEN cfg.globalDefaults
    ELSE Spread(getProfile(cfg, name).defaults, cfg.globalDefaults)

mergeWithDefaults(cfg, name) ==
    IF getProfile(cfg, name) = Null THEN cfg.globalDefaults
    ELSE Spread(cfg.globalDefaults, getProfile(cfg, name).defaults)

MaxProfiles == 2       \* profiles of a configuration

GlobalDefaultsChoices ==
    { <<>>,
      "practices" :> "global practices",
      "quality" :> "global quality",
      ("practices" :> "global practices") @@ ("quality" :> "") }

ProfileDefaultsChoices ==
    { <<>>,
      "practices" :> "profile practices",
      ("practices" :> "") @@ ("purpose" :> "profile purpose"),
      "purpose" :> "profile purpose" }

ProfilePool ==
    [name : { "default", "web" }, defaults : ProfileDefaultsChoices]

Configs ==
    [activeProfile : { "", "web", "gone" },
     globalDefaults : GlobalDefaultsChoices,
     profiles : SeqsUpTo(ProfilePool, MaxProfiles)]

InitMerge ==
    /\ ValidatorIdle
    /\ readme = ""
    /\ StructurePassIdle /\ CommandsPassIdle /\ NormalizeIdle
    /\ ScanIdle /\ TechPassIdle /\ AppIdle
    /\ config \in Configs
    /\ profileName \in { "", "default", "web", "cli" }
    /\ merged = Null
    /\ mpc = "called"

\* mergeWithDefaults(config, profileName)
MergeWithDefaults ==
    /\ mpc = "called"
    /\ merged' = mergeWithDefaults(config, profileName)
    /\ mpc' = "returned"
    /\ UNCHANGED <<config, profileName, vVars, tVars, cVars, nVars, sVars, hVars, aVars>>

NextMerge == MergeWithDefaults

SpecMerge == InitMerge /\ [][NextMerge]_vars

-----------------------------------------------------------------------------
(* Claims about the configuration.                                         *)

\* the name the call selects: the argument, else activeProfile, else default
SelectedName ==
    IF profileName # "" THEN profileName
    ELSE IF config.activeProfile # "" THEN config.activeProfile
    ELSE "default"

ProfilesNamed(n) == { i \in 1..Len(config.profiles) : config.profiles[i].name = n }

\* the defaults of the selected profile (the first of that name)
SelectedDefaults ==
    config.profiles[CHOOSE i \in ProfilesNamed(SelectedName) :
                        \A j \in ProfilesNamed(SelectedName) : i <= j].defaults

\* C13: in the result of mergeWithDefaults every key of the selected
\* profile's defaults has the profile's value and every other key of
\* globalDefaults has the global value; when no profile of the selected name
\* (argument, else activeProfile, else "default") exists the result equals
\* globalDefaults.
C13_ProfileWinsOverGlobal ==
    mpc = "returned" =>
        IF ProfilesNamed(SelectedName) = {}
        THEN merged = config.globalDefaults
        ELSE /\ DOMAIN merged = DOMAIN SelectedDefaults \cup DOMAIN config.globalDefaults
             /\ \A k \in DOMAIN SelectedDefaults : merged[k] = SelectedDefaults[k]
             /\ \A k \in DOMAIN config.globalDefaults \ DOMAIN SelectedDefaults :
                   merged[k] = config.globalDefaults[k]

C13_Witness ==
    /\ mpc = "returned"
    /\ profileName = ""
    /\ config.activeProfile = "web"
    /\ ProfilesNamed("web") # {}
    /\ "practices" \in DOMAIN config.globalDefaults
    /\ "practices" \in DOMAIN SelectedDefaults
    /\ "quality" \in DOMAIN config.globalDefaults
    /\ merged["practices"] = ""
    /\ merged["quality"] = ""
    /\ merged["purpose"] = "profile purpose"

-----------------------------------------------------------------------------
(* Further claims about the comparator (under Spec).                       *)

ReadmeClaimRules ==
    { "readme-drift", "readme-incomplete", "readme-command-drift",
      "readme-command-incomplete", "readme-structure-drift",
      "readme-structure-incomplete" }

\* the position of a rule's family in the output
FamilyRank(rule) ==
    CASE rule = "tech-stack" -> 1
      [] rule = "testing-practices" -> 2
      [] rule = "structure" -> 3
      [] rule \in ReadmeClaimRules -> 4

\* C14: in every list validateDoc returns, the tech-stack findings come
\* before the testing-practices findings, these before the structure
\* (source-dir) finding, and this before every README-claim finding.
C14_FamiliesInOrder ==
    pc = "validated" =>
        /\ \A i \in 1..Len(results) :
              results[i].rule \in { "tech-stack", "testing-practices", "structure" }
                                     \cup ReadmeClaimRules
        /\ \A i, j \in 1..Len(results) :
              i < j => FamilyRank(results[i].rule) <= FamilyRank(results[j].rule)

C14_Witness ==
    /\ pc = "validated"
    /\ { "tech-stack", "testing-practices", "structure", "readme-drift",
         "readme-command-drift", "readme-structure-drift" } \subseteq Rules(results)

CountOfRule(rule) == Cardinality({ i \in 1..Len(results) : results[i].rule = rule })

ScriptNames == { info.packageManager.scripts[i] : i \in 1..Len(info.packageManager.scripts) }
ClaimedCommands ==
    { info.readmeClaims.commands[i] : i \in 1..Len(info.readmeClaims.commands) }
CommonScriptNames == { "dev", "build", "start", "test", "lint" }

\* the scripts rule readme-command-incomplete is about
UnclaimedCommonScripts == (ScriptNames \cap CommonScriptNames) \ ClaimedCommands

\* C15 as stated: with a package manager and README claims, validateDoc
\* returns one readme-command-incomplete finding for each script among dev,
\* build, start, test, lint that exists and is not claimed, also when no
\* command is claimed at all, and none for any other script.
C15_IncompleteForEveryUnclaimedCommonScript ==
    TechRulesRan =>
        /\ \A sc \in UnclaimedCommonScripts :
              CountInResults(CommandIncompleteFinding(sc)) = 1
        /\ CountOfRule("readme-command-incomplete") = Cardinality(UnclaimedCommonScripts)

\* C15 as amended: with a package manager and at least one claimed command,
\* validateDoc returns one readme-command-incomplete finding for each script
\* among dev, build, start, test, lint that exists and is not claimed, and
\* none for any other script; when no command is claimed it returns no
\* readme-command-incomplete finding.
C15_IncompleteOnlyWhenSomeCommandClaimed ==
    TechRulesRan =>
        IF ClaimedCommands = {}
        THEN CountOfRule("readme-command-incomplete") = 0
        ELSE /\ \A sc \in UnclaimedCommonScripts :
                   CountInResults(CommandIncompleteFinding(sc)) = 1
             /\ CountOfRule("readme-command-incomplete")
                   = Cardinality(UnclaimedCommonScripts)

C15_Witness ==
    /\ TechRulesRan
    /\ info.packageManager.scripts = << "dev", "deploy" >>
    /\ info.readmeClaims.commands = << "lint" >>
    /\ InResults(CommandIncompleteFinding("dev"))
    /\ CountOfRule("readme-command-incomplete") = 1

\* the claim without a leading "<project-name>/"
WithoutNamePrefix(c) ==
    IF StartsWith(c, info.name \o "/")
    THEN SubSeq(c, Len(info.name) + 2, Len(c)) ELSE c

\* the relative path a structure claim stands for
ReducedPath(c) ==
    LET p == WithoutNamePrefix(c)
    IN  IF EndsWith(p, "/") THEN SubSeq(p, 1, Len(p) - 1) ELSE p

\* the structure claims whose path is not the root and does not exist
MissingClaimIndexes ==
    { i \in 1..Len(info.readmeClaims.structure) :
        /\ ReducedPath(info.readmeClaims.structure[i]) # ""
        /\ ReducedPath(info.readmeClaims.structure[i]) \notin fs }

\* C16: for each structure claim, with a leading "<project-name>/" and a
\* trailing slash stripped, validateDoc returns exactly one
\* readme-structure-drift warning if the resulting non-empty path does not
\* exist under the project root and none if it exists; a claim that reduces
\* to the empty path is never flagged.
C16_DriftIffReducedPathMissing ==
    (pc = "validated" /\ info.readmeClaims # Null) =>
        /\ CountOfRule("readme-structure-drift") = Cardinality(MissingClaimIndexes)
        /\ \A i \in MissingClaimIndexes :
              InResults(StructureDriftFinding(WithoutNamePrefix(info.readmeClaims.structure[i])))

\* the structure claims as the first loop of validateStructureClaims left them
NormalizedStructureClaims ==
    LET n == normalizeStructureClaims(info.readmeClaims.structure, info.name)
    IN  { stripTrailingSlash(n[i]) : i \in 1..Len(n) }

\* a claimed path covers the directory d: it is d, lies below d, or is an
\* ancestor of d
Covers(c, d) == c = d \/ StartsWith(c, d \o "/") \/ StartsWith(d, c \o "/")

ActualDirectories ==
    { info.structure.directories[i] : i \in 1..Len(info.structure.directories) }

C19_TechStackIffTypeNotMentioned ==
    (pc = "validated" /\ info.packageManager # Null) =>
        /\ CountOfRule("tech-stack")
              = IF ContainsIgnoringCase(doc, info.packageManager.type) THEN 0 ELSE 1
        /\ \A i \in 1..Len(results) :
              results[i].rule = "tech-stack" => results[i].severity = "warning"

C19_Witness ==
    /\ pc = "validated"
    /\ info.packageManager # Null
    /\ info.packageManager.type = "npm"
    /\ doc = "built with NPM"
    /\ CountOfRule("tech-stack") = 0

-----------------------------------------------------------------------------
(* Claims C21, C24 and C26 about the comparator (under Spec).              *)

StructureClaimRules == { "readme-structure-drift", "readme-structure-incomplete" }

\* the three rules that read the documentation text: how many findings each
\* has to return for the text and the ProjectInfo of the call
ExpectedTechStackCount ==
    IF info.packageManager # Null
       /\ ~ContainsIgnoringCase(doc, info.packageManager.type)
    THEN 1 ELSE 0
ExpectedTestingCount == IF ClaimsTdd(doc) # info.hasTests THEN 1 ELSE 0
ExpectedStructureCount ==
    IF info.structure.sourceDir # "" /\ ~Includes(doc, info.structure.sourceDir)
    THEN 1 ELSE 0

\* C21: with readmeClaims null validateDoc returns no finding of a readme-*
\* rule; with an empty list of structure claims it returns no
\* readme-structure-drift and no readme-structure-incomplete finding; in both
\* cases the tech-stack, testing-practices and structure rules are evaluated
\* as usual and the call returns a list of findings.
C21_AbsentClaimsSkipReadmeRules ==
    pc = "validated" =>
        /\ info.readmeClaims = Null => Rules(results) \cap ReadmeClaimRules = {}
        /\ (info.readmeClaims # Null /\ info.readmeClaims.structure = <<>>)
              => Rules(results) \cap StructureClaimRules = {}
        /\ (info.readmeClaims = Null \/ info.readmeClaims.structure = <<>>)
              => /\ CountOfRule("tech-stack") = ExpectedTechStackCount
                 /\ CountOfRule("testing-practices") = ExpectedTestingCount
                 /\ CountOfRule("structure") = ExpectedStructureCount

C21_Witness ==
    /\ pc = "validated"
    /\ info.readmeClaims = Null
    /\ info.packageManager # Null
    /\ Len(info.structure.directories) > 0
    /\ Rules(results) = { "tech-stack", "testing-practices", "structure" }

AllRules ==
    { "tech-stack", "testing-practices", "structure", "readme-drift",
      "readme-incomplete", "readme-command-drift", "readme-command-incomplete",
      "readme-structure-drift", "readme-structure-incomplete" }
WarningRules ==
    { "tech-stack", "readme-drift", "readme-command-drift", "readme-structure-drift" }
InfoRules ==
    { "structure", "readme-incomplete", "readme-command-incomplete",
      "readme-structure-incomplete" }

\* C24: the rule of every finding validateDoc returns is one of nine; a
\* tech-stack, readme-drift, readme-command-drift or readme-structure-drift
\* finding is a warning; a structure, readme-incomplete,
\* readme-command-incomplete or readme-structure-incomplete finding is an
\* info; a testing-practices finding is an error when the text claims TDD and
\* the project has no tests, and an info when it has tests and the text does
\* not mention TDD.
C24_SeverityDeterminedByRule ==
    pc = "validated" =>
        \A i \in 1..Len(results) :
            /\ results[i].rule \in AllRules
            /\ results[i].rule \in WarningRules => results[i].severity = "warning"
            /\ results[i].rule \in InfoRules => results[i].severity = "info"
            /\ results[i].rule = "testing-practices" =>
                  \/ /\ results[i].severity = "error"
                     /\ ClaimsTdd(doc) /\ ~info.hasTests
                  \/ /\ results[i].severity = "info"
                     /\ ~ClaimsTdd(doc) /\ info.hasTests

C24_Witness ==
    /\ pc = "validated"
    /\ AllRules \ { "readme-incomplete" } \subseteq Rules(results)
    /\ WithSeverity(results, "error") # {}

\* C26: readme-drift and readme-incomplete use one notion of a match: when a
\* tech-stack claim c matches a runtime dependency d in the drift check (so c
\* is not flagged because of d), d counts as mentioned by c and validateDoc
\* returns no readme-incomplete finding for d.
C26_DriftMatchImpliesMentioned ==
    TechRulesRan =>
        \A c \in TechStackClaims : \A d \in RuntimeDependencyNames :
            MatchesDependency(c, d) => ~InResults(IncompleteFinding(d))

-----------------------------------------------------------------------------
(* Claims C25 and C27 about the structure pass (under SpecTree).           *)

\* the block parseDirectoryTree was called with holds a tree glyph
BlockHasGlyph ==
    \E k \in 1..Len(codeBlockContent) : hasTreeIndicator(codeBlockContent[k])

\* a non-blank line of the block holds a tree glyph
BlockHasGlyphLine ==
    \E k \in 1..Len(codeBlockContent) :
        cleanedOf(codeBlockContent[k]) # "" /\ hasTreeIndicator(codeBlockContent[k])

BlockHasDirectoryLine ==
    \E k \in 1..Len(codeBlockContent) : IsDirectoryLine(codeBlockContent, k)

\* parseDirectoryTree returns to extractStructureClaims in this step
TreeReturns == tpc = "parse" /\ tpc' = "scan"

\* C25 as stated: a fenced block is recognized as a tree only when it contains
\* box-drawing glyphs; a block in which no line contains one of the three
\* glyphs contributes no structure claims, whatever its lines end in.
C25_NoGlyphNoClaims ==
    [][(TreeReturns /\ ~BlockHasGlyph) => structClaims' = structClaims]_vars

\* C25 as amended: a fenced block is recognized as a tree when a non-blank
\* line of it contains one of the three glyphs or a cleaned line of it ends
\* in "/"; a block with neither contributes no structure claims, and a block
\* with a line that ends in "/" contributes the paths of these lines, with or
\* without glyphs.
C25_TreeByGlyphOrDirectoryLine ==
    [][TreeReturns =>
          /\ looksLikeTree <=> (BlockHasGlyphLine \/ BlockHasDirectoryLine)
          /\ ~looksLikeTree => structClaims' = structClaims
          /\ BlockHasDirectoryLine =>
                /\ structClaims' = structClaims \o entries
                /\ Len(entries) = Cardinality({ k \in 1..Len(codeBlockContent) :
                                                   IsDirectoryLine(codeBlockContent, k) })]_vars

\* a block without any glyph has contributed its two directory lines
C25_Witness ==
    /\ tpc = "done"
    /\ readme = "# app\n'''\nsrc/\n  lib/\n'''"
    /\ structResult = << "src/", "src/lib/" >>

\* the indentations on the stack increase strictly from the bottom to the top
StackStrictlyIncreasing(stack) ==
    \A i, j \in 1..Len(stack) : i < j => stack[i].indent < stack[j].indent

IsProperPrefix(p, s) == Len(p) < Len(s) /\ SubSeq(s, 1, Len(p)) = p

\* parseDirectoryTree processes one line in this step
LineProcessed == tpc = "parse" /\ treeIdx' = treeIdx + 1

\* C27: while parseDirectoryTree processes the lines of a block, the
\* indentations on the stack increase strictly from bottom to top after every
\* line; a blank line leaves the stack unchanged; every path emitted for a
\* directory line is the path emitted for the directory below it on the stack
\* followed by the line's name (the name alone at the bottom of the stack), so
\* the path below is a proper prefix of it; and a directory line never has a
\* directory line of the same indentation below it on the stack: two
\* directory lines of equal indentation are never ancestor and descendant.
C27_StackIsAncestry ==
    [][LineProcessed =>
          LET line == codeBlockContent[treeIdx]
              top == dirStack'[Len(dirStack')]
          IN  /\ StackStrictlyIncreasing(dirStack')
              /\ cleanedOf(line) = "" => dirStack' = dirStack /\ entries' = entries
              /\ IsDirectoryLine(codeBlockContent, treeIdx) =>
                    /\ Len(dirStack') > 0
                    /\ top = [indent |-> indentOf(line), name |-> cleanedOf(line)]
                    /\ \A k \in 1..(Len(dirStack') - 1) :
                          /\ dirStack'[k] = dirStack[k]
                          /\ dirStack'[k].indent # indentOf(line)
                    /\ Len(entries') = Len(entries) + 1
                    /\ IF Len(dirStack') = 1
                       THEN entries'[Len(entries')] = top.name
                       ELSE \E m \in 1..Len(entries) :
                               /\ EndsWith(entries[m], dirStack'[Len(dirStack') - 1].name)
                               /\ IsProperPrefix(entries[m], entries'[Len(entries')])
                               /\ entries'[Len(entries')] = entries[m] \o top.name
              /\ (cleanedOf(line) # "" /\ ~IsDirectoryLine(codeBlockContent, treeIdx))
                    => entries' = entries]_vars

\* two nested directories are on the stack and the blank third line left
\* them there
C27_Witness ==
    /\ tpc = "parse"
    /\ Len(dirStack) = 2
    /\ dirStack[1].indent = 0 /\ dirStack[2].indent = 2
    /\ entries = << "src/", "src/lib/" >>
    /\ treeIdx = 4
    /\ cleanedOf(codeBlockContent[3]) = ""

-----------------------------------------------------------------------------
(* The document generator: src/unnamed/part_002 (generator/index.ts,       *)
(* exported there as generateDoc and imported by the init command as       *)
(* generateClaudeMd).                                                      *)
(*                                                                         *)
(* A Record<string, string> of the manifest is the sequence of its keys;   *)
(* the value the manifest gives to a key is manifestValue(key).  readme is *)
(* NoReadme or ReadmeFile(text).                                           *)

\* the values of the manifests the model explores
manifestValue(key) ==
    CASE key = "react" -> "^18.2.0"
      [] key = "vitest" -> "^1.0.0"
      [] key = "jest" -> "^29.7.0"
      [] key = "build" -> "tsc"
      [] OTHER -> "latest"

\* extractFirstParagraph: the loop over the lines, from line i on; "" is null
RECURSIVE firstParagraphFrom(_, _, _, _)
firstParagraphFrom(lines, i, inParagraph, paragraph) ==
    IF i > Len(lines) THEN Trim(paragraph)
    ELSE LET trimmed == Trim(lines[i])
         IN  IF \/ StartsWith(trimmed, "#")
                \/ StartsWith(trimmed, "![")
                \/ StartsWith(trimmed, "[![")
                \/ trimmed = "---"
             THEN firstParagraphFrom(lines, i + 1, inParagraph, paragraph)
             ELSE IF trimmed = ""
             THEN IF inParagraph /\ Trim(paragraph) # ""
                  THEN Trim(paragraph)
                  ELSE firstParagraphFrom(lines, i + 1, inParagraph, paragraph)
             ELSE firstParagraphFrom(lines, i + 1, TRUE, paragraph \o lines[i] \o " ")

extractFirstParagraph(text) == firstParagraphFrom(SplitLines(text), 1, FALSE, "")

needsReviewPurpose ==
    "[NEEDS REVIEW] Describe the purpose and goals of this project.\n"

generateHeader(inf) ==
    "# CLAUDE.md - " \o inf.name \o " Project Context\n\n"
    \o "## Project Overview\n\n"
    \o (IF inf.readme # NoReadme /\ inf.readme.text # ""
           /\ extractFirstParagraph(inf.readme.text) # ""
        THEN extractFirstParagraph(inf.readme.text) \o "\n"
        ELSE needsReviewPurpose)

\* for (const dep of deps.slice(0, 10)) section += `- ${dep}: ${record[dep]}\n`
RECURSIVE dependencyLines(_, _)
dependencyLines(keys, i) ==
    IF i > Len(keys) \/ i > 10 THEN ""
    ELSE "- " \o keys[i] \o ": " \o manifestValue(keys[i]) \o "\n"
         \o dependencyLines(keys, i + 1)

\* mutant: the package manager is named by its configuration file
generateTechStack_configFile(inf) ==
    "## Tech Stack\n\n"
    \o (IF inf.packageManager # Null
        THEN "**Package Manager**: " \o inf.packageManager.configFile \o "\n"
             \o (IF Len(inf.packageManager.dependencies) > 0
                 THEN "\n**Key Dependencies**:\n"
                      \o dependencyLines(inf.packageManager.dependencies, 1)
                 ELSE "")
             \o (IF Len(inf.packageManager.devDependencies) > 0
                 THEN "\n**Dev Dependencies**:\n"
                      \o dependencyLines(inf.packageManager.devDependencies, 1)
                 ELSE "")
        ELSE "[NEEDS REVIEW] Document the languages, frameworks, and key dependencies.\n")

generateTechStack(inf) ==
    "## Tech Stack\n\n"
    \o (IF inf.packageManager # Null
        THEN "**Package Manager**: " \o inf.packageManager.type \o "\n"
             \o (IF Len(inf.packageManager.dependencies) > 0
                 THEN "\n**Key Dependencies**:\n"
                      \o dependencyLines(inf.packageManager.dependencies, 1)
                 ELSE "")
             \o (IF Len(inf.packageManager.devDependencies) > 0
                 THEN "\n**Dev Dependencies**:\n"
                      \o dependencyLines(inf.packageManager.devDependencies, 1)
                 ELSE "")
        ELSE "[NEEDS REVIEW] Document the languages, frameworks, and key dependencies.\n")

\* for (const dir of info.structure.directories) section += `${dir}/\n`
RECURSIVE directoryLines(_, _)
directoryLines(dirs, i) ==
    IF i > Len(dirs) THEN ""
    ELSE dirs[i] \o "/\n" \o directoryLines(dirs, i + 1)

generateStructure(inf) ==
    "## Project Structure\n\n"
    \o (IF Len(inf.structure.directories) > 0
        THEN "'''\n" \o directoryLines(inf.structure.directories, 1) \o "'''\n"
             \o "\n[NEEDS REVIEW] Add descriptions for each directory.\n"
        ELSE "[NEEDS REVIEW] Document the project directory structure.\n")

\* for (const [name, command] of Object.entries(scripts)) ...
RECURSIVE scriptLines(_, _)
scriptLines(scripts, i) ==
    IF i > Len(scripts) THEN ""
    ELSE "- 'npm run " \o scripts[i] \o "': " \o manifestValue(scripts[i]) \o "\n"
         \o scriptLines(scripts, i + 1)

generateDevelopmentPractices(inf) ==
    "## Development Practices\n\n"
    \o (IF inf.hasTests
        THEN "### Testing\n\n"
             \o "Test files found. Patterns: " \o JoinWith(inf.testPatterns, ", ") \o "\n"
             \o "\n[NEEDS REVIEW] Document testing approach and conventions.\n"
        ELSE "")
    \o (IF inf.packageManager # Null /\ Len(inf.packageManager.scripts) > 0
        THEN "\n### Available Scripts\n\n" \o scriptLines(inf.packageManager.scripts, 1)
        ELSE "")
    \o (IF inf.cicd # Null
        THEN "\n### CI/CD\n\n"
             \o "Platform: " \o inf.cicd.platform \o "\n"
             \o "Workflow files: " \o JoinWith(inf.cicd.files, ", ") \o "\n"
        ELSE "")

generatePlaceholderSections ==
    "## Domain Knowledge\n\n"
    \o "[NEEDS REVIEW] Document business rules, terminology, and domain-specific concepts.\n\n"
    \o "## AI-Specific Guidance\n\n"
    \o "[NEEDS REVIEW] Add common tasks, anti-patterns, and gotchas for AI assistants.\n\n"
    \o "## Quality Gates\n\n"
    \o "[NEEDS REVIEW] Define what \"done\" looks like - tests, linting, review requirements."

\* sections.join('\n\n')
generateDoc(inf) ==
    JoinWith(<< generateHeader(inf), generateTechStack(inf), generateStructure(inf),
                generateDevelopmentPractices(inf), generatePlaceholderSections >>,
             "\n\n")

-----------------------------------------------------------------------------
(* The init command: src/src/commands/init.ts.  The output file is the     *)
(* documentation file (doc, docExists); root is the working directory.     *)

\* scanProject(rootPath) throws (its promise is rejected)
scanThrows(r) == hasPackageJson(r) /\ parseThrows(r)

\* scanProject(rootPath), when it returns
scanProject(r) ==
    [name |-> getProjectName(r),
     packageManager |-> detectPackageManager(r),
     structure |-> analyzeStructure(r)]
    @@ detectTestSetup(r, detectPackageManager(r))
    @@ [cicd |-> detectCiCd(r),
        readme |-> r.readme,
        readmeClaims |-> IF r.readme # NoReadme /\ r.readme.text # ""
                         THEN parseReadmeClaims(r.readme.text)
                         ELSE Null]

\* the names existsSync finds directly under the project root
entryNames(r) == { r.entries[k].name : k \in 1..Len(r.entries) }

InitReadmeChoices ==
    { NoReadme, ReadmeFile("# app\n![logo](l.png)\n\nA small tool.\nFast.\n\nMore."),
      ReadmeFile("## Stack\n- Vue 3\n'''\nsrc/\n'''\nyarn dev") }

InitRoots ==
    [base : { "app" },
     packageJson : PackageJsonChoices,
     requirementsTxt : BOOLEAN,
     cargoToml : { FALSE },
     entries : EntryChoices,
     workflows : WorkflowChoices,
     gitlabCi : { FALSE },
     readme : InitReadmeChoices]

\* what the output file holds before the command runs
OldDocs == { "", "# Notes\nhand-written, npm, src" }

InitInit ==
    /\ root \in InitRoots
    /\ scan = Null
    /\ spc = "idle"
    /\ docExists \in BOOLEAN
    /\ doc \in OldDocs
    /\ ~docExists => doc = ""
    /\ force \in BOOLEAN
    /\ info = Null
    /\ fs = entryNames(root)
    /\ pc = "start"
    /\ results = <<>>
    /\ results2 = <<>>
    /\ exitCode = -1
    /\ stdout = ""
    /\ requests = <<>>
    /\ configFile = Null
    /\ readme = ""
    /\ StructurePassIdle /\ CommandsPassIdle /\ NormalizeIdle
    /\ MergeIdle /\ TechPassIdle

notInitVars == <<fs, results2, root, scan, spc, requests, configFile, force,
                 tVars, cVars, nVars, mVars, hVars>>

\* if (existsSync(output) && !force) { console.error(...); process.exit(1) }
InitGuard ==
    /\ pc = "start"
    /\ IF docExists /\ ~force
       THEN /\ exitCode' = 1
            /\ stdout' = "error: exists"
            /\ pc' = "exited"
       ELSE /\ stdout' = "Scanning project..."
            /\ pc' = "scanning"
            /\ UNCHANGED exitCode
    /\ UNCHANGED <<doc, docExists, info, results, notInitVars>>

\* const projectInfo = await scanProject(process.cwd()); a rejection ends the
\* process with a failure status
InitScanProject ==
    /\ pc = "scanning"
    /\ IF scanThrows(root)
       THEN /\ exitCode' = 1
            /\ pc' = "crashed"
            /\ UNCHANGED info
       ELSE /\ info' = scanProject(root)
            /\ pc' = "generating"
            /\ UNCHANGED exitCode
    /\ UNCHANGED <<doc, docExists, stdout, results, notInitVars>>

\* const content = generateClaudeMd(projectInfo); writeFileSync(output, content)
InitWrite ==
    /\ pc = "generating"
    /\ doc' = generateDoc(info)
    /\ docExists' = TRUE
    /\ stdout' = "Created"
    /\ exitCode' = 0
    /\ pc' = "written"
    /\ UNCHANGED <<info, results, notInitVars>>

\* the skeleton just written is validated against the ProjectInfo it was
\* generated from
ValidateSkeleton ==
    /\ pc = "written"
    /\ results' = validateDoc(doc, info, fs)
    /\ pc' = "validated"
    /\ UNCHANGED <<doc, docExists, info, exitCode, stdout, notInitVars>>

NextInit ==
    \/ InitGuard
    \/ InitScanProject
    \/ InitWrite
    \/ ValidateSkeleton

SpecInit == InitInit /\ [][NextInit]_vars

\* C28: the skeleton generated for a ProjectInfo, validated against the same
\* ProjectInfo, gives no tech-stack finding and no structure finding.
C28_SkeletonPassesOwnFacts ==
    pc = "validated" =>
        /\ doc = generateDoc(info)
        /\ "tech-stack" \notin Rules(results)
        /\ "structure" \notin Rules(results)

C28_Witness ==
    /\ pc = "validated"
    /\ info.packageManager # Null
    /\ info.packageManager.type = "pip"
    /\ info.structure.sourceDir = "source"
    /\ "testing-practices" \in Rules(results)

\* C30: the init command never overwrites an existing file unless --force is
\* given: when the output file exists and force is not set the command exits
\* with status 1 before it scans the project and the file is unchanged;
\* otherwise the command writes the generated skeleton to the file.
C30_OverwriteOnlyWithForce ==
    /\ [][(pc = "start" /\ docExists /\ ~force)
             => (pc' = "exited" /\ exitCode' = 1 /\ info' = Null
                 /\ doc' = doc /\ docExists' = docExists)]_vars
    /\ [][(pc = "exited") => (doc' = doc /\ docExists' = docExists)]_vars
    /\ [][(pc = "scanning")
             => (pc' = "generating" /\ ~scanThrows(root)
                 /\ info' = scanProject(root))]_vars
    /\ [][(pc = "generating")
             => (pc' = "written" /\ docExists' /\ doc' = generateDoc(info))]_vars

-----------------------------------------------------------------------------
(* JSON.parse and JSON.stringify on the JSON texts of the request bodies:  *)
(* null, numbers, strings without escapes, and objects whose members are   *)
(* such scalars, written without white space.  A JSON value is a record    *)
(* [type, ...]: "null", "number" (text), "string" (str), "object" (keys,   *)
(* vals), and "undefined" for a property that is not there.                *)

JsonNull == [type |-> "null"]
JsonUndefined == [type |-> "undefined"]
JsonString(str) == [type |-> "string", str |-> str]
JsonNumber(text) == [type |-> "number", text |-> text]
JsonObject(keys, vals) == [type |-> "object", keys |-> keys, vals |-> vals]

JsonFail == [ok |-> FALSE]
JsonAt(value, next) == [ok |-> TRUE, value |-> value, next |-> next]

\* the first position at or after p that holds character c (0 if none)
RECURSIVE IndexFrom(_, _, _)
IndexFrom(s, p, c) ==
    IF p > Len(s) THEN 0
    ELSE IF CharAt(s, p) = c THEN p
    ELSE IndexFrom(s, p + 1, c)

\* a string literal at position p
parseJsonString(s, p) ==
    IF p <= Len(s) /\ CharAt(s, p) = "\"" /\ IndexFrom(s, p + 1, "\"") # 0
    THEN JsonAt(JsonString(SubSeq(s, p + 1, IndexFrom(s, p + 1, "\"") - 1)),
                IndexFrom(s, p + 1, "\"") + 1)
    ELSE JsonFail

\* null, a number or a string at position p
parseJsonScalar(s, p) ==
    IF LitAt(s, p, "null") THEN JsonAt(JsonNull, p + 4)
    ELSE IF p <= Len(s) /\ InClass(CharAt(s, p), DigitClass \ { "0" })
    THEN JsonAt(JsonNumber(SubSeq(s, p, SkipClass(s, p, DigitClass) - 1)),
                SkipClass(s, p, DigitClass))
    ELSE parseJsonString(s, p)

\* keys and vals with key set to val: a repeated name keeps its first place
\* and takes the last value
PutMember(keys, vals, key, val) ==
    IF SeqIncludes(keys, key)
    THEN [keys |-> keys,
          vals |-> [k \in 1..Len(vals) |-> IF keys[k] = key THEN val ELSE vals[k]]]
    ELSE [keys |-> Append(keys, key), vals |-> Append(vals, val)]

\* the members of an object from position p on, after "{" or ","
RECURSIVE parseJsonMembers(_, _, _, _)
parseJsonMembers(s, p, keys, vals) ==
    LET key == parseJsonString(s, p)
    IN  IF ~key.ok \/ ~LitAt(s, key.next, ":") THEN JsonFail
        ELSE LET val == parseJsonScalar(s, key.next + 1)
             IN  IF ~val.ok THEN JsonFail
                 ELSE LET put == PutMember(keys, vals, key.value.str, val.value)
                      IN  IF LitAt(s, val.next, ",")
                          THEN parseJsonMembers(s, val.next + 1, put.keys, put.vals)
                          ELSE IF LitAt(s, val.next, "}")
                          THEN JsonAt(JsonObject(put.keys, put.vals), val.next + 1)
                          ELSE JsonFail

parseJsonValue(s, p) ==
    IF LitAt(s, p, "{}") THEN JsonAt(JsonObject(<<>>, <<>>), p + 2)
    ELSE IF LitAt(s, p, "{") THEN parseJsonMembers(s, p + 1, <<>>, <<>>)
    ELSE parseJsonScalar(s, p)

\* JSON.parse(text): [ok |-> FALSE] is a SyntaxError
jsonParse(text) ==
    LET r == parseJsonValue(text, 1)
    IN  IF r.ok /\ r.next = Len(text) + 1 THEN [ok |-> TRUE, value |-> r.value]
        ELSE JsonFail

\* value[name] of a parsed value that is not null
jsonProperty(value, name) ==
    IF value.type = "object" /\ SeqIncludes(value.keys, name)
    THEN value.vals[CHOOSE k \in 1..Len(value.keys) : value.keys[k] = name]
    ELSE JsonUndefined

stringifyScalar(v) ==
    CASE v.type = "null" -> "null"
      [] v.type = "number" -> v.text
      [] v.type = "string" -> "\"" \o v.str \o "\""

RECURSIVE stringifyMembers(_, _, _)
stringifyMembers(keys, vals, i) ==
    IF i > Len(keys) THEN ""
    ELSE "  \"" \o keys[i] \o "\": " \o stringifyScalar(vals[i])
         \o (IF i < Len(keys) THEN ",\n" ELSE "\n")
         \o stringifyMembers(keys, vals, i + 1)

\* JSON.stringify(value, null, 2)
jsonStringify(v) ==
    IF v.type # "object" THEN stringifyScalar(v)
    ELSE IF Len(v.keys) = 0 THEN "{}"
    ELSE "{\n" \o stringifyMembers(v.keys, v.vals, 1) \o "}"

-----------------------------------------------------------------------------
(* The HTTP server: src/src/commands/serve.ts.                             *)
(*                                                                         *)
(* The documentation file CLAUDE.md of the project is (doc, docExists),    *)
(* the project root is root, the configuration file is configFile (Null    *)
(* when absent, FileText(text) otherwise).  A request is a record          *)
(*   kind     "save", "config", "project" or "check"                       *)
(*   sent     the body the client sends                                    *)
(*   pending  the chunks of the body not yet delivered                     *)
(*   body     readBody: the chunks received so far                         *)
(*   status   the HTTP status of the response (0: not answered)            *)
(*   reply    the response body                                            *)
(*   claudeMd, results   the handler's locals of these names               *)
(*   order    history: the position of the response among all responses    *)
(* Node runs one callback at a time: a chunk handler, or the rest of a     *)
(* handler after its await, is one step.                                   *)

FileText(text) == [isNull |-> FALSE, text |-> text]

MaxRequests == 2       \* concurrent requests of a run

\* the network delivers a body in at most two chunks
chunksOf(body) ==
    IF body = "" THEN <<>>
    ELSE IF Len(body) = 1 THEN << body >>
    ELSE << SubSeq(body, 1, Len(body) \div 2),
            SubSeq(body, Len(body) \div 2 + 1, Len(body)) >>

NewRequest(kind, sent) ==
    [kind |-> kind, sent |-> sent, pending |-> chunksOf(sent), body |-> "",
     status |-> 0, reply |-> "", claudeMd |-> Null, results |-> <<>>, order |-> 0]

\* request bodies
ContentPool == { "", "# A npm src", "B" }
SaveBody(content) == "{\"content\":\"" \o content \o "\"}"
ProfileNamePool == { "work" }
ConfigBody(name) == "{\"activeProfile\":\"" \o name \o "\",\"version\":2}"
MalformedBodies == { "", "{\"content\":", "{\"activeProfile\"" }
\* JSON texts that are not an object with a string content
OtherJsonBodies == { "{}", "null", "{\"content\":5}" }

RequestPool ==
    { NewRequest("save", b) :
        b \in { SaveBody(c) : c \in ContentPool } \cup MalformedBodies \cup OtherJsonBodies }
    \cup { NewRequest("config", b) :
             b \in { ConfigBody(n) : n \in ProfileNamePool } \cup { "{\"activeProfile\"", "null" } }
    \cup { NewRequest("project", ""), NewRequest("check", "") }

ServeRoots ==
    { r \in InitRoots :
        /\ r.requirementsTxt = FALSE
        /\ r.workflows.exists = FALSE
        /\ r.readme = ReadmeFile("## Stack\n- Vue 3\n'''\nsrc/\n'''\nyarn dev")
        /\ r.entries = << Dir(".git"), Dir("node_modules"), Dir("src"), Dir("tests") >>
        /\ \/ r.packageJson.state # "valid"
           \/ /\ r.packageJson.name = "my-app"
              /\ r.packageJson.dependencies = << "react" >>
              /\ r.packageJson.devDependencies = << "vitest" >>
              /\ r.packageJson.scripts = << "build" >> }

ServedDocs == { "", "# Doc\nnpm, see src" }

InitServe ==
    /\ root \in ServeRoots
    /\ scan = Null
    /\ spc = "idle"
    /\ docExists \in BOOLEAN
    /\ doc \in ServedDocs
    /\ ~docExists => doc = ""
    /\ force = FALSE
    /\ requests \in SeqsUpTo(RequestPool, MaxRequests) \ { <<>> }
    /\ configFile = Null
    /\ info = Null
    /\ fs = entryNames(root)
    /\ pc = "idle"
    /\ results = <<>>
    /\ results2 = <<>>
    /\ exitCode = -1
    /\ stdout = ""
    /\ readme = ""
    /\ StructurePassIdle /\ CommandsPassIdle /\ NormalizeIdle
    /\ MergeIdle /\ TechPassIdle

notServeVars == <<info, fs, pc, results, results2, exitCode, stdout, root, scan, spc,
                  force, tVars, cVars, nVars, mVars, hVars>>

Answered == { q \in DOMAIN requests : requests[q].status # 0 }

\* res.writeHead(status); res.end(reply)
Respond(r, status, reply) ==
    [requests EXCEPT ![r].status = status, ![r].reply = reply,
                     ![r].order = Cardinality(Answered) + 1]

\* mutant: a chunk replaces what was received before
appendChunk_overwrite(body, chunk) == chunk

\* readBody: body += chunk.toString()
appendChunk(body, chunk) == body \o chunk

\* readBody: req.on('data', ...)
ReceiveChunk(r) ==
    /\ requests[r].status = 0
    /\ requests[r].pending # <<>>
    /\ requests' = [requests EXCEPT
                       ![r].body = appendChunk(@, Head(requests[r].pending)),
                       ![r].pending = Tail(@)]
    /\ UNCHANGED <<doc, docExists, configFile, notServeVars>>

\* mutant: a body that does not parse is answered as a success
saveOutcome_noCatch(body) ==
    LET parsed == jsonParse(body)
    IN  IF ~parsed.ok \/ parsed.value.type = "null"
        THEN [status |-> 200, reply |-> "success", written |-> FALSE, content |-> ""]
        ELSE LET content == jsonProperty(parsed.value, "content")
             IN  IF content.type # "string"
                 THEN [status |-> 500, reply |-> "Internal server error",
                       written |-> FALSE, content |-> ""]
                 ELSE [status |-> 200, reply |-> "success",
                       written |-> TRUE, content |-> content.str]

\* handleSave after readBody: JSON.parse(body).content in the try block (a
\* SyntaxError, or the TypeError of reading a property of null, is answered
\* 400), then writeFileSync, whose TypeError for data that is not a string
\* is answered 500 by the catch of the request listener
saveOutcome(body) ==
    LET parsed == jsonParse(body)
    IN  IF ~parsed.ok \/ parsed.value.type = "null"
        THEN [status |-> 400, reply |-> "Invalid JSON in request body",
              written |-> FALSE, content |-> ""]
        ELSE LET content == jsonProperty(parsed.value, "content")
             IN  IF content.type # "string"
                 THEN [status |-> 500, reply |-> "Internal server error",
                       written |-> FALSE, content |-> ""]
                 ELSE [status |-> 200, reply |-> "success",
                       written |-> TRUE, content |-> content.str]

\* POST /api/save: the rest of handleSave once the body has ended
HandleSave(r) ==
    /\ requests[r].kind = "save"
    /\ requests[r].status = 0
    /\ requests[r].pending = <<>>
    /\ LET out == saveOutcome(requests[r].body)
       IN  /\ requests' = Respond(r, out.status, out.reply)
           /\ IF out.written
              THEN doc' = out.content /\ docExists' = TRUE
              ELSE UNCHANGED <<doc, docExists>>
    /\ UNCHANGED <<configFile, notServeVars>>

\* handleSaveConfig after readBody: JSON.parse(body) in the try block, then
\* saveConfig(config), which writes JSON.stringify(config, null, 2)
saveConfigOutcome(body) ==
    LET parsed == jsonParse(body)
    IN  IF ~parsed.ok
        THEN [status |-> 400, reply |-> "Invalid JSON in request body",
              written |-> FALSE, content |-> ""]
        ELSE [status |-> 200, reply |-> "success",
              written |-> TRUE, content |-> jsonStringify(parsed.value)]

\* POST /api/config: the rest of handleSaveConfig once the body has ended
HandleSaveConfig(r) ==
    /\ requests[r].kind = "config"
    /\ requests[r].status = 0
    /\ requests[r].pending = <<>>
    /\ LET out == saveConfigOutcome(requests[r].body)
       IN  /\ requests' = Respond(r, out.status, out.reply)
           /\ configFile' = IF out.written THEN FileText(out.content) ELSE configFile
    /\ UNCHANGED <<doc, docExists, notServeVars>>

\* GET /api/project: handleGetProject validates under `if (claudeMd)`
HandleGetProject(r) ==
    /\ requests[r].kind = "project"
    /\ requests[r].status = 0
    /\ IF scanThrows(root)
       THEN requests' = Respond(r, 500, "Internal server error")
       ELSE LET claudeMd == IF docExists THEN FileText(doc) ELSE Null
                validationResults ==
                    IF claudeMd # Null /\ claudeMd.text # ""
                    THEN validateDoc(claudeMd.text, scanProject(root), fs)
                    ELSE <<>>
            IN  requests' = [Respond(r, 200, "project") EXCEPT
                                ![r].claudeMd = claudeMd,
                                ![r].results = validationResults]
    /\ UNCHANGED <<doc, docExists, configFile, notServeVars>>

\* GET /api/check: handleCheck validates under `if (existsSync(claudeMdPath))`
HandleCheck(r) ==
    /\ requests[r].kind = "check"
    /\ requests[r].status = 0
    /\ IF scanThrows(root)
       THEN requests' = Respond(r, 500, "Internal server error")
       ELSE requests' = [Respond(r, 200, "results") EXCEPT
                            ![r].claudeMd = IF docExists THEN FileText(doc) ELSE Null,
                            ![r].results = IF docExists
                                           THEN validateDoc(doc, scanProject(root), fs)
                                           ELSE <<>>]
    /\ UNCHANGED <<doc, docExists, configFile, notServeVars>>

NextServe ==
    \E r \in DOMAIN requests :
        \/ ReceiveChunk(r)
        \/ HandleSave(r)
        \/ HandleSaveConfig(r)
        \/ HandleGetProject(r)
        \/ HandleCheck(r)

SpecServe == InitServe /\ [][NextServe]_vars

-----------------------------------------------------------------------------
(* Claims about the HTTP server (under SpecServe).                         *)

\* request r is answered in this step
Answering(r) == requests[r].status = 0 /\ requests'[r].status # 0

FilesUnchanged == doc' = doc /\ docExists' = docExists /\ configFile' = configFile

\* the configuration of ConfigBody(name), as JSON.stringify(config, null, 2)
\* has to print it
PrettyConfig(name) ==
    "{\n  \"activeProfile\": \"" \o name \o "\",\n  \"version\": 2\n}"

\* C22: a POST /api/save or POST /api/config request whose body is not valid
\* JSON is answered with status 400 and leaves the file unchanged; the
\* response 200 {success: true} is sent only in a step that has written the
\* file with the submitted content (the content field for /api/save, the
\* configuration, pretty-printed, for /api/config).
C22_BadBodyRejectedSuccessAfterWrite ==
    [][\A r \in DOMAIN requests :
          (Answering(r) /\ requests[r].kind \in { "save", "config" }) =>
              /\ requests[r].sent \in MalformedBodies
                    => requests'[r].status = 400 /\ FilesUnchanged
              /\ requests'[r].status = 200 =>
                    /\ requests'[r].reply = "success"
                    /\ requests[r].kind = "save" =>
                          \E c \in ContentPool :
                              /\ requests[r].sent = SaveBody(c)
                              /\ docExists' /\ doc' = c
                    /\ requests[r].kind = "config" =>
                          \/ \E n \in ProfileNamePool :
                                /\ requests[r].sent = ConfigBody(n)
                                /\ configFile' = FileText(PrettyConfig(n))
                          \/ /\ requests[r].sent = "null"
                             /\ configFile' = FileText("null")]_vars

C22_Witness ==
    /\ Len(requests) = 2
    /\ requests[1].kind = "save" /\ requests[1].status = 200
    /\ requests[1].sent = SaveBody("# A npm src")
    /\ doc = "# A npm src"
    /\ requests[2].kind = "config" /\ requests[2].status = 400
    /\ configFile = Null

SaveRequests == { r \in DOMAIN requests : requests[r].kind = "save" }
SucceededSaves == { r \in SaveRequests : requests[r].status = 200 }
AllAnswered == \A r \in DOMAIN requests : requests[r].status # 0

\* a valid body of POST /api/save: the JSON text of an object with a string
\* content
HasValidSaveBody(r) == \E c \in ContentPool : requests[r].sent = SaveBody(c)

\* C23: for every interleaving of concurrent POST /api/save requests that
\* all complete, the final content of CLAUDE.md is the complete content
\* submitted by exactly one request, the one whose write was performed last
\* (never a mixture of several bodies), and every request with a valid body
\* (an object with a string content) is answered with success.
C23_LastWriteWins ==
    AllAnswered =>
        /\ \A r \in SaveRequests :
              HasValidSaveBody(r)
                  => requests[r].status = 200 /\ requests[r].reply = "success"
        /\ SucceededSaves # {} =>
              LET last == CHOOSE r \in SucceededSaves :
                              \A q \in SucceededSaves :
                                  requests[q].order <= requests[r].order
              IN  docExists /\ requests[last].sent = SaveBody(doc)

\* two saves with different contents; the request that arrived first was
\* written last
C23_Witness ==
    /\ Len(requests) = 2
    /\ AllAnswered
    /\ requests[1].sent = SaveBody("B") /\ requests[1].status = 200
    /\ requests[2].sent = SaveBody("# A npm src") /\ requests[2].status = 200
    /\ requests[1].order = 2
    /\ doc = "B"

\* C29: for the same state of the disk, the validationResults of a
\* GET /api/project response equal the results of a GET /api/check response,
\* for every content of CLAUDE.md, the existing empty file and the missing
\* file included.
C29_ProjectAndCheckAgree ==
    \A r1, r2 \in DOMAIN requests :
        ( /\ requests[r1].kind = "project" /\ requests[r1].status = 200
          /\ requests[r2].kind = "check" /\ requests[r2].status = 200
          /\ requests[r1].claudeMd = requests[r2].claudeMd )
            => requests[r1].results = requests[r2].results

=============================================================================
